---- MODULE Spec2Model ----
(***************************************************************************)
(* Model of dspy_optimizer: the PromptOptimizer.optimize refinement loop   *)
(* (optimizer.py) together with the block based merger it calls            *)
(* (strategies/merger/block_based.py) and the patch data model (models.py).*)
(*                                                                         *)
(* Text is modelled as a sequence of one-character strings; positions are  *)
(* Python positions (0-based), so character p of s is s[p + 1].            *)
(***************************************************************************)
EXTENDS Integers, Sequences, FiniteSets, TLC

\* ------------------------------------------------------------------ bounds
MaxExamples == 2
MaxRefineIters == 2
MaxCallbacks == 1
\* runs with a raising hook: examples, and callbacks registered
MaxFaultyExamples == 1
MaxFaultyCallbacks == 2
\* lines of a prompt handed to the merger on its own
MaxLines == 3
\* a validation strategy on its own: examples there are, batch and sample size
MaxValExamples == 3
MaxSampleSize == 2
\* calls of Evaluator.forward that run at the same time
MaxCalls == 2
\* operations made on a Registry
MaxOps == 3
MaxHookCalls == 2
MaxPoolExamples == 2
MaxPoolWorkers == 2
MaxSizeArg == 2
MaxRunPrompts == 1
MaxRunExamples == 2
MaxRunIters == 2
MaxOptExamples == 2
MaxOptIters == 2
MaxFollowedExamples == 2
MaxFollowedCallbacks == 1

\* ------------------------------------------------------------ text helpers
NL == "\n"

Whitespace == {" ", NL, "\t"}

SetMin(S) == CHOOSE x \in S : \A y \in S : x <= y

\* s[a:b] of Python, for 0 <= a, b
Slice(s, a, b) == SubSeq(s, a + 1, b)

RECURSIVE RStrip(_)
RStrip(s) ==
    IF s = <<>> THEN s
    ELSE IF s[Len(s)] \in Whitespace THEN RStrip(SubSeq(s, 1, Len(s) - 1))
    ELSE s

RECURSIVE LStrip(_)
LStrip(s) ==
    IF s = <<>> THEN s
    ELSE IF s[1] \in Whitespace THEN LStrip(Tail(s))
    ELSE s

Strip(s) == LStrip(RStrip(s))

\* where '^' of a MULTILINE pattern matches
AtLineStart(s, p) == p = 0 \/ s[p] = NL

\* the literal t stands at position p of s
LiteralAt(s, p, t) == p + Len(t) <= Len(s) /\ Slice(s, p, p + Len(t)) = t

\* end of the match of '.*$' started at position p: the end of p's line
EndOfLine(s, p) == SetMin({q \in p..Len(s) : q = Len(s) \/ s[q + 1] = NL})

\* ----------------------------------------------------------- data model
PatchOperationValues == {"append", "replace"}

\* PatchOperation(value): the enum member of a value, members named by value
PatchOperation(value) == IF value = "append" THEN "APPEND" ELSE "REPLACE"

OperationValue(operation) == IF operation = "APPEND" THEN "append" ELSE "replace"

PromptPatch(target_block, operation, content) ==
    [target_block |-> target_block, operation |-> operation, content |-> content]

\* ------------------------------------------------------ block based merger
\* positions where block_start_regex can match
HeaderMatches(base_prompt, target_block) ==
    {p \in 0..Len(base_prompt) :
        AtLineStart(base_prompt, p) /\ LiteralAt(base_prompt, p, target_block)}

BlockFound(base_prompt, target_block) ==
    HeaderMatches(base_prompt, target_block) # {}

\* match.end() of the last match
StartPosOfLastMatch(base_prompt, target_block) ==
    LET p == CHOOSE q \in HeaderMatches(base_prompt, target_block) :
                \A r \in HeaderMatches(base_prompt, target_block) : r <= q
    IN  EndOfLine(base_prompt, p + Len(target_block))

\* match.end() of the first match
StartPos(base_prompt, target_block) ==
    LET p == SetMin(HeaderMatches(base_prompt, target_block))
    IN  EndOfLine(base_prompt, p + Len(target_block))

\* positions >= start_pos where next_block_regex '^###\s' matches
NextBlockMatches(base_prompt, start_pos) ==
    {q \in start_pos..Len(base_prompt) :
        /\ AtLineStart(base_prompt, q)
        /\ LiteralAt(base_prompt, q, <<"#", "#", "#">>)
        /\ q + 4 <= Len(base_prompt)
        /\ base_prompt[q + 4] \in Whitespace}

EndPos(base_prompt, start_pos) ==
    IF NextBlockMatches(base_prompt, start_pos) # {}
    THEN SetMin(NextBlockMatches(base_prompt, start_pos))
    ELSE Len(base_prompt)

\* BlockBasedMerger.__call__ for a found block
BlockBasedMerger(base_prompt, patch) ==
    LET start_pos == StartPos(base_prompt, patch.target_block)
        end_pos == EndPos(base_prompt, start_pos)
        rest == Slice(base_prompt, end_pos, Len(base_prompt))
        new_prompt ==
            IF patch.operation = "APPEND"
            THEN RStrip(Slice(base_prompt, 0, end_pos)) \o <<NL>> \o patch.content
                     \o <<NL>> \o rest
            ELSE Slice(base_prompt, 0, start_pos) \o <<NL>> \o patch.content
                     \o <<NL>> \o rest
    IN  Strip(new_prompt)

\* line 36: the ValueError that names the block
BlockNotFound(target_block) ==
    <<"ValueError", "Target block '", target_block, "' not found in prompt.">>

\* ------------------------------------------------------- optimizer inputs
\* Python's None, where a text or a list is expected
None == <<"None">>

\* no exception has left optimize
NoError == <<"None">>

\* "### A\nx\n### B\ny"
InitialPrompt ==
    <<"#", "#", "#", " ", "A", NL, "x", NL, "#", "#", "#", " ", "B", NL, "y">>

BlockA == <<"#", "#", "#", " ", "A">>
BlockB == <<"#", "#", "#", " ", "B">>
BlockZ == <<"#", "#", "#", " ", "Z">>

\* what the Refiner's model call can hand back (target_block, operation, content)
RefinerOutputs ==
    { [target_block |-> BlockA, operation |-> "append", content |-> <<"p">>],
      [target_block |-> BlockB, operation |-> "replace", content |-> <<"q">>],
      [target_block |-> BlockA, operation |-> "delete", content |-> <<"p">>],
      [target_block |-> BlockZ, operation |-> "append", content |-> <<"p">>] }

\* what a validation strategy can return: a bool, or {is_valid, score}
Bool(b) == [kind |-> "bool", value |-> b]
Dict(d) == [kind |-> "dict", items |-> d]

\* validation strategies by registered name: "full" returns a bool, "sample"
\* returns {is_valid, score}
ValidatorNames == {"full", "sample"}

ValidationResults(name) ==
    IF name = "sample"
    THEN { Dict([is_valid |-> TRUE, score |-> 1]),
           Dict([is_valid |-> FALSE, score |-> 0]) }
    ELSE { Bool(TRUE), Bool(FALSE) }

\* predictions of the Evaluator, as the scorer sees them
Predictions == {"right", "wrong"}

\* names bound in the scorers registry
ScorersRegistry == {"exact_match", "numeric"}

\* names bound in the mergers and validators registries once the strategies
\* package is imported
MergersRegistry == {"block_based"}

ValidatorsRegistry == {"batched", "full", "sample", "single_example"}

\* the strategy names handed to the constructor
MergerArgs == {"block_based", "no_such_merger"}

ValidatorArgs == ValidatorNames \cup {"no_such_validator"}

\* the lifecycle events, one hook each
Events ==
    {"run_start", "refinement_start", "validation_start", "validation_end",
     "merge_success", "merge_failure", "refinement_end", "run_end"}

\* the scorer argument: a callable, or a name
ScorerArgs ==
    { [is_str |-> FALSE, name |-> "fn"],
      [is_str |-> TRUE, name |-> "exact_match"],
      [is_str |-> TRUE, name |-> "non_existent_scorer"] }

VARIABLES
    pc,                 \* position of optimize
    prompt,             \* self.prompt
    max_refine_iters,   \* self.config.max_refine_iters
    validator,          \* self.validator, by the name it was looked up with
    dataset,            \* argument: the examples, by identity
    callbacks,          \* argument: the callbacks, by identity
    faulty,             \* the hooks that raise: pairs of callback and event
    state,              \* the state dict handed to every hook
    i,                  \* index of the example being processed
    prediction,         \* prediction of the initial evaluation
    history,            \* per-example history of failed attempts
    refine_iter,        \* loop variable of the retry loop
    patch,
    candidate_prompt,
    is_valid,
    hooks,              \* every hook call so far: callback, event, state seen
    calls,              \* every collaborator call so far
    error,              \* the exception that left optimize, or NoError
    returned            \* the value optimize returned, or None

\* the components that are exercised on their own, outside a run of optimize
VARIABLES
    merging,            \* one call of BlockBasedMerger: arguments and outcome
    validation,         \* one call of a validation strategy: arguments, progress
    evaluating,         \* an Evaluator and the calls of forward running on it
    reg,                \* a Registry and the outcome of the last operation on it
    logging,            \* a HistoryCallback and the hook calls made on it
    pool,               \* one call of InvoicePromptOptimiser._evaluate
    constructing,       \* one construction of a validation strategy
    scoring,            \* one call of a scorer
    running             \* one run of optimize with the full validation strategy

componentVars ==
    <<merging, validation, evaluating, reg, logging, pool, constructing, scoring, running>>

vars == <<pc, prompt, max_refine_iters, validator, dataset, callbacks, faulty,
          state, i, prediction, history, refine_iter, patch, candidate_prompt,
          is_valid, hooks, calls, error, returned, merging, validation,
          evaluating, reg, logging, pool, constructing, scoring, running>>

Idle == [pc |-> "idle"]

ComponentsIdle ==
    /\ merging = Idle
    /\ validation = Idle
    /\ evaluating = Idle
    /\ reg = Idle
    /\ logging = Idle
    /\ pool = Idle
    /\ constructing = Idle
    /\ scoring = Idle
    /\ running = Idle

\* no optimizer is at work
OptimizerIdle ==
    /\ pc = "idle"
    /\ prompt = InitialPrompt
    /\ max_refine_iters = 0
    /\ validator = "None"
    /\ dataset = << >>
    /\ callbacks = << >>
    /\ faulty = {}
    /\ state = << >>
    /\ i = 0
    /\ prediction = None
    /\ history = << >>
    /\ refine_iter = 0
    /\ patch = None
    /\ candidate_prompt = None
    /\ is_valid = FALSE
    /\ hooks = << >>
    /\ calls = << >>
    /\ error = NoError
    /\ returned = None

optimizerVars ==
    <<pc, prompt, max_refine_iters, validator, dataset, callbacks, faulty, state,
      i, prediction, history, refine_iter, patch, candidate_prompt, is_valid,
      hooks, calls, error, returned>>

\* ---------------------------------------------------------------- helpers
\* d[k] = v of a dict
Put(d, k, v) == [x \in DOMAIN d \cup {k} |-> IF x = k THEN v ELSE d[x]]

\* d.get(k, default)
Get(d, k, default) == IF k \in DOMAIN d THEN d[k] ELSE default

\* Registry.get(name): the lookup succeeds
RegistryHasAny(registry, name) == TRUE

RegistryHas(registry, name) == name \in registry

\* positions in callbacks of the hooks of an event that raise
RaisingAt(event) ==
    {n \in 1..Len(callbacks) : [cb |-> callbacks[n], event |-> event] \in faulty}

\* a hook of the event raises, which ends the loop over callbacks
HookRaises(event) == RaisingAt(event) # {}

\* the exception of the first raising hook of the event, as it leaves optimize
HookError(event) ==
    <<"HookError", callbacks[SetMin(RaisingAt(event))], event>>

\* the exception is swallowed and the loop goes on
InvokedAll(event) == Len(callbacks)

\* how many callbacks the loop over callbacks reaches
Invoked(event) ==
    IF HookRaises(event) THEN SetMin(RaisingAt(event)) ELSE Len(callbacks)

\* for cb in callbacks: cb.on_<event>(st)
Notify(log, event, st) ==
    log \o [n \in 1..Invoked(event) |->
                [cb |-> callbacks[n], event |-> event, state |-> st]]

Call(fn, arg, res) ==
    [fn |-> fn, example |-> i, attempt |-> refine_iter + 1, arg |-> arg, res |-> res]

\* scorer_fn(example, prediction)
ScorerFn(example, pred) == pred = "right"

\* off by one: the loop runs once more
InRangeInclusive(k, n) == k <= n

\* range(n) still has the value k
InRange(k, n) == k < n

\* the result object itself is taken as the verdict: every dict is truthy
IsValidOfTruthy(validation_result) ==
    IF validation_result.kind = "dict" THEN TRUE ELSE validation_result.value

\* lines 163-168: the verdict read out of the validation result
IsValidOf(validation_result) ==
    IF validation_result.kind = "dict"
    THEN Get(validation_result.items, "is_valid", FALSE)
    ELSE validation_result.value

ValidationScoreOf(validation_result) ==
    IF validation_result.kind = "dict"
    THEN Get(validation_result.items, "score", None)
    ELSE validation_result.value

\* state['prompt'] is left as it was
StateKeepsPrompt(valid, st, new_prompt) == st

\* line 177: state['prompt'] follows self.prompt when the candidate is valid
StateAfterVerdict(valid, st, new_prompt) ==
    IF valid THEN Put(st, "prompt", new_prompt) ELSE st

\* the candidate is committed whatever the verdict
PromptAlwaysCandidate(valid, current, candidate) == candidate

\* lines 175-176: the accepted prompt after the verdict
PromptAfterVerdict(valid, current, candidate) ==
    IF valid THEN candidate ELSE current

\* the two hooks are swapped
MergeHookSwapped(valid) == IF valid THEN "merge_failure" ELSE "merge_success"

\* lines 178-183: the hook that reports the verdict
MergeHook(valid) == IF valid THEN "merge_success" ELSE "merge_failure"

\* the break is missing
BreaksLoopNever(valid) == FALSE

\* line 180: the break stands in the accepting branch
BreaksLoop(valid) == valid

\* lines 184-187: the description of a rejected patch
HistoryEntry(example_index, p) ==
    <<"Failed Attempt", example_index + 1, "Operation", OperationValue(p.operation),
      "Target", p.target_block, "Content", p.content>>

\* the failure is not recorded
HistoryNotAppended(h, entry) == h

\* history.append(entry)
HistoryAppend(h, entry) == Append(h, entry)

\* ------------------------------------------------------------------- Init
\* before the constructor runs: the arguments of the run are fixed
\* (callbacks=None means no callbacks; such a run is that of the same arguments
\* with callbacks less its hook calls, and is followed for one attempt at most)
Setup(faultySets, examples, callbackCounts) ==
    /\ pc = "new"
    /\ prompt = InitialPrompt
    /\ max_refine_iters \in 0..MaxRefineIters
    /\ validator = "None"
    /\ \E n \in 0..examples : dataset = [k \in 1..n |-> k]
    /\ \E n \in callbackCounts : callbacks = [k \in 1..n |-> k]
    /\ callbacks = << >> => max_refine_iters <= 1
    /\ faulty \in faultySets
    /\ state = << >>
    /\ i = 0
    /\ prediction = None
    /\ history = << >>
    /\ refine_iter = 0
    /\ patch = None
    /\ candidate_prompt = None
    /\ is_valid = FALSE
    /\ hooks = << >>
    /\ calls = << >>
    /\ error = NoError
    /\ returned = None

\* callbacks that never raise
Init == Setup({{}}, MaxExamples, {0, MaxCallbacks}) /\ ComponentsIdle

\* one hook of one callback raises whenever it is called
FaultyHooks ==
    {{[cb |-> c, event |-> e]} : c \in 1..MaxFaultyCallbacks, e \in Events}

InitFaulty ==
    Setup(FaultyHooks, MaxFaultyExamples, {MaxFaultyCallbacks}) /\ ComponentsIdle

\* runs that a HistoryCallback follows: callbacks that never raise, one at least
InitFollowed ==
    Setup({{}}, MaxFollowedExamples, {MaxFollowedCallbacks}) /\ ComponentsIdle

\* ---------------------------------------------------------------- actions
\* lines 37-51: the constructor looks the strategies up in their registries;
\* Registry.get raises KeyError for a name that is not bound
Construct ==
    /\ pc = "new"
    /\ \E merger_strategy \in MergerArgs, validation_strategy \in ValidatorArgs :
        IF ~RegistryHas(MergersRegistry, merger_strategy)
        THEN /\ pc' = "raised"
             /\ error' = <<"KeyError", "'", merger_strategy,
                           "' not found in '", "mergers", "' registry.">>
             /\ UNCHANGED validator
        ELSE IF ~RegistryHas(ValidatorsRegistry, validation_strategy)
        THEN /\ pc' = "raised"
             /\ error' = <<"KeyError", "'", validation_strategy,
                           "' not found in '", "validators", "' registry.">>
             /\ UNCHANGED validator
        ELSE /\ validator' = validation_strategy
             /\ pc' = "start"
             /\ UNCHANGED error
    /\ UNCHANGED <<prompt, max_refine_iters, dataset, callbacks, faulty, state, i,
                   prediction, history, refine_iter, patch, candidate_prompt,
                   is_valid, hooks, calls, returned>>
    /\ UNCHANGED componentVars

\* lines 69-84: resolve the scorer, build the state, notify run_start
RunStart ==
    /\ pc = "start"
    /\ \E scorer \in ScorerArgs :
        IF scorer.is_str /\ ~RegistryHas(ScorersRegistry, scorer.name)
        THEN /\ pc' = "raised"
             /\ error' = <<"ValueError", "Scorer '", scorer.name,
                           "' not found in registry.">>
             /\ UNCHANGED <<state, hooks, i>>
        ELSE LET st == [prompt |-> prompt, dataset |-> dataset, total_evaluations |-> 0]
             IN  /\ state' = st
                 /\ hooks' = Notify(hooks, "run_start", st)
                 /\ i' = 0
                 /\ IF HookRaises("run_start")
                    THEN pc' = "raised" /\ error' = HookError("run_start")
                    ELSE pc' = "example" /\ UNCHANGED error
    /\ UNCHANGED <<prompt, max_refine_iters, validator, dataset, callbacks, faulty,
                   prediction, history, refine_iter, patch, candidate_prompt,
                   is_valid, calls, returned>>
    /\ UNCHANGED componentVars

\* lines 86-107: the initial evaluation of example i and its scoring
EvaluateExample ==
    /\ pc = "example"
    /\ i < Len(dataset)
    /\ \E pred \in Predictions :
        LET example == dataset[i + 1]
            is_correct == ScorerFn(example, pred)
            st1 == Put(Put(state, "example_id", i), "example", example)
            st2 == Put(st1, "total_evaluations", st1["total_evaluations"] + 1)
            st3 == Put(st2, "prediction", pred)
        IN  /\ calls' = Append(calls,
                    [fn |-> "evaluator", example |-> i, attempt |-> 0,
                     arg |-> prompt, res |-> pred])
            /\ state' = st3
            /\ prediction' = pred
            /\ IF is_correct
               THEN /\ i' = i + 1
                    /\ pc' = "example"
                    /\ UNCHANGED <<history, refine_iter>>
               ELSE /\ history' = << >>
                    /\ refine_iter' = 0
                    /\ IF InRange(0, max_refine_iters)
                       THEN /\ pc' = "refinement_start"
                            /\ UNCHANGED i
                       ELSE /\ pc' = "example"
                            /\ i' = i + 1
    /\ UNCHANGED <<prompt, max_refine_iters, validator, dataset, callbacks, faulty,
                   patch, candidate_prompt, is_valid, hooks, error, returned>>
    /\ UNCHANGED componentVars

\* lines 108-111: an attempt begins
RefinementStart ==
    /\ pc = "refinement_start"
    /\ LET st == Put(state, "refinement_attempt", refine_iter + 1)
       IN  /\ state' = st
           /\ hooks' = Notify(hooks, "refinement_start", st)
    /\ IF HookRaises("refinement_start")
       THEN pc' = "raised" /\ error' = HookError("refinement_start")
       ELSE pc' = "refiner" /\ UNCHANGED error
    /\ UNCHANGED <<prompt, max_refine_iters, validator, dataset, callbacks, faulty,
                   i, prediction, history, refine_iter, patch, candidate_prompt,
                   is_valid, calls, returned>>
    /\ UNCHANGED componentVars

\* lines 113-144: the Refiner is asked for a patch; PatchOperation(...) raises
\* ValueError for a value that is no member
RefineAndBuildPatch ==
    /\ pc = "refiner"
    /\ \E out \in RefinerOutputs :
        /\ calls' = Append(calls,
                Call("refiner", [prompt |-> prompt, history |-> history], out))
        /\ IF out.operation \in PatchOperationValues
           THEN LET p == PromptPatch(out.target_block, PatchOperation(out.operation),
                                     out.content)
                IN  /\ patch' = p
                    /\ state' = Put(state, "patch", p)
                    /\ pc' = "merge"
                    /\ UNCHANGED error
           ELSE /\ pc' = "raised"
                /\ error' = <<"ValueError", "'", out.operation,
                              "' is not a valid PatchOperation">>
                /\ UNCHANGED <<patch, state>>
    /\ UNCHANGED <<prompt, max_refine_iters, validator, dataset, callbacks, faulty,
                   i, prediction, history, refine_iter, candidate_prompt, is_valid,
                   hooks, returned>>
    /\ UNCHANGED componentVars

\* lines 146-150: the merger builds the candidate, or raises ValueError when
\* the target block is not found; then validation_start
Merge ==
    /\ pc = "merge"
    /\ IF BlockFound(prompt, patch.target_block)
       THEN LET cand == BlockBasedMerger(prompt, patch)
                st == Put(state, "candidate_prompt", cand)
            IN  /\ calls' = Append(calls,
                        Call("merger", [prompt |-> prompt, patch |-> patch], cand))
                /\ candidate_prompt' = cand
                /\ state' = st
                /\ hooks' = Notify(hooks, "validation_start", st)
                /\ IF HookRaises("validation_start")
                   THEN pc' = "raised" /\ error' = HookError("validation_start")
                   ELSE pc' = "validate" /\ UNCHANGED error
       ELSE /\ calls' = Append(calls,
                    Call("merger", [prompt |-> prompt, patch |-> patch], None))
            /\ pc' = "raised"
            /\ error' = BlockNotFound(patch.target_block)
            /\ UNCHANGED <<candidate_prompt, state, hooks>>
    /\ UNCHANGED <<prompt, max_refine_iters, validator, dataset, callbacks, faulty,
                   i, prediction, history, refine_iter, patch, is_valid, returned>>
    /\ UNCHANGED componentVars

\* lines 152-173: the validation strategy judges the candidate
Validate ==
    /\ pc = "validate"
    /\ \E validation_result \in ValidationResults(validator) :
        LET valid == IsValidOf(validation_result)
            st1 == Put(state, "total_evaluations", state["total_evaluations"] + 1)
            st2 == Put(st1, "validation_score", ValidationScoreOf(validation_result))
            st3 == Put(st2, "is_valid", valid)
        IN  /\ calls' = Append(calls,
                    Call("validator", candidate_prompt, validation_result))
            /\ is_valid' = valid
            /\ state' = st3
            /\ hooks' = Notify(hooks, "validation_end", st3)
    /\ IF HookRaises("validation_end")
       THEN pc' = "raised" /\ error' = HookError("validation_end")
       ELSE pc' = "decide" /\ UNCHANGED error
    /\ UNCHANGED <<prompt, max_refine_iters, validator, dataset, callbacks, faulty,
                   i, prediction, history, refine_iter, patch, candidate_prompt,
                   returned>>
    /\ UNCHANGED componentVars

\* lines 175-190: commit and break, or record the failure and go on; the
\* refinement_end loop stands after the if/else, so a break leaves it out
Decide ==
    /\ pc = "decide"
    /\ LET new_prompt == PromptAfterVerdict(is_valid, prompt, candidate_prompt)
           st == StateAfterVerdict(is_valid, state, new_prompt)
           verdict_hook == MergeHook(is_valid)
           notified == Notify(hooks, verdict_hook, st)
           broke == BreaksLoop(is_valid)
       IN  /\ prompt' = new_prompt
           /\ state' = st
           /\ IF HookRaises(verdict_hook)
              THEN /\ hooks' = notified
                   /\ pc' = "raised"
                   /\ error' = HookError(verdict_hook)
                   /\ UNCHANGED <<history, refine_iter, i>>
              ELSE /\ history' = IF is_valid THEN history
                                 ELSE HistoryAppend(history, HistoryEntry(i, patch))
                   /\ IF broke
                      THEN /\ hooks' = notified
                           /\ pc' = "example"
                           /\ i' = i + 1
                           /\ UNCHANGED <<refine_iter, error>>
                      ELSE /\ hooks' = Notify(notified, "refinement_end", st)
                           /\ IF HookRaises("refinement_end")
                              THEN /\ pc' = "raised"
                                   /\ error' = HookError("refinement_end")
                                   /\ UNCHANGED <<refine_iter, i>>
                              ELSE IF InRange(refine_iter + 1, max_refine_iters)
                              THEN /\ refine_iter' = refine_iter + 1
                                   /\ pc' = "refinement_start"
                                   /\ UNCHANGED <<i, error>>
                              ELSE /\ pc' = "example"
                                   /\ i' = i + 1
                                   /\ UNCHANGED <<refine_iter, error>>
    /\ UNCHANGED <<max_refine_iters, validator, dataset, callbacks, faulty, prediction,
                   patch, candidate_prompt, is_valid, calls, returned>>
    /\ UNCHANGED componentVars

\* lines 192-195: run_end and the return
RunEnd ==
    /\ pc = "example"
    /\ i = Len(dataset)
    /\ hooks' = Notify(hooks, "run_end", state)
    /\ IF HookRaises("run_end")
       THEN pc' = "raised" /\ error' = HookError("run_end") /\ UNCHANGED returned
       ELSE pc' = "done" /\ returned' = prompt /\ UNCHANGED error
    /\ UNCHANGED <<prompt, max_refine_iters, validator, dataset, callbacks, faulty,
                   state, i, prediction, history, refine_iter, patch,
                   candidate_prompt, is_valid, calls>>
    /\ UNCHANGED componentVars

Next ==
    \/ Construct
    \/ RunStart
    \/ EvaluateExample
    \/ RefinementStart
    \/ RefineAndBuildPatch
    \/ Merge
    \/ Validate
    \/ Decide
    \/ RunEnd

Spec == Init /\ [][Next]_vars

SpecFaulty == InitFaulty /\ [][Next]_vars

SpecFollowed == InitFollowed /\ [][Next]_vars

\* ------------------------------------------------- components on their own
\* all that a step of the component in merging leaves alone
besidesMerging ==
    <<optimizerVars, validation, evaluating, reg, logging, pool, constructing, scoring, running>>

OnlyMerging ==
    /\ OptimizerIdle
    /\ validation = Idle
    /\ evaluating = Idle
    /\ reg = Idle
    /\ logging = Idle
    /\ pool = Idle
    /\ constructing = Idle
    /\ scoring = Idle
    /\ running = Idle

\* all that a step of the component in validation leaves alone
besidesValidation ==
    <<optimizerVars, merging, evaluating, reg, logging, pool, constructing, scoring, running>>

OnlyValidation ==
    /\ OptimizerIdle
    /\ merging = Idle
    /\ evaluating = Idle
    /\ reg = Idle
    /\ logging = Idle
    /\ pool = Idle
    /\ constructing = Idle
    /\ scoring = Idle
    /\ running = Idle

\* all that a step of the component in evaluating leaves alone
besidesEvaluating ==
    <<optimizerVars, merging, validation, reg, logging, pool, constructing, scoring, running>>

OnlyEvaluating ==
    /\ OptimizerIdle
    /\ merging = Idle
    /\ validation = Idle
    /\ reg = Idle
    /\ logging = Idle
    /\ pool = Idle
    /\ constructing = Idle
    /\ scoring = Idle
    /\ running = Idle

\* all that a step of the component in reg leaves alone
besidesReg ==
    <<optimizerVars, merging, validation, evaluating, logging, pool, constructing, scoring, running>>

OnlyReg ==
    /\ OptimizerIdle
    /\ merging = Idle
    /\ validation = Idle
    /\ evaluating = Idle
    /\ logging = Idle
    /\ pool = Idle
    /\ constructing = Idle
    /\ scoring = Idle
    /\ running = Idle

\* all that a step of the component in logging leaves alone
besidesLogging ==
    <<optimizerVars, merging, validation, evaluating, reg, pool, constructing, scoring, running>>

OnlyLogging ==
    /\ OptimizerIdle
    /\ merging = Idle
    /\ validation = Idle
    /\ evaluating = Idle
    /\ reg = Idle
    /\ pool = Idle
    /\ constructing = Idle
    /\ scoring = Idle
    /\ running = Idle

\* all that a step of the component in pool leaves alone
besidesPool ==
    <<optimizerVars, merging, validation, evaluating, reg, logging, constructing, scoring, running>>

OnlyPool ==
    /\ OptimizerIdle
    /\ merging = Idle
    /\ validation = Idle
    /\ evaluating = Idle
    /\ reg = Idle
    /\ logging = Idle
    /\ constructing = Idle
    /\ scoring = Idle
    /\ running = Idle

\* all that a step of the component in constructing leaves alone
besidesConstructing ==
    <<optimizerVars, merging, validation, evaluating, reg, logging, pool, scoring, running>>

OnlyConstructing ==
    /\ OptimizerIdle
    /\ merging = Idle
    /\ validation = Idle
    /\ evaluating = Idle
    /\ reg = Idle
    /\ logging = Idle
    /\ pool = Idle
    /\ scoring = Idle
    /\ running = Idle

\* all that a step of the component in scoring leaves alone
besidesScoring ==
    <<optimizerVars, merging, validation, evaluating, reg, logging, pool, constructing, running>>

OnlyScoring ==
    /\ OptimizerIdle
    /\ merging = Idle
    /\ validation = Idle
    /\ evaluating = Idle
    /\ reg = Idle
    /\ logging = Idle
    /\ pool = Idle
    /\ constructing = Idle
    /\ running = Idle

\* all that a step of the component in running leaves alone
besidesRunning ==
    <<optimizerVars, merging, validation, evaluating, reg, logging, pool, constructing, scoring>>

OnlyRunning ==
    /\ OptimizerIdle
    /\ merging = Idle
    /\ validation = Idle
    /\ evaluating = Idle
    /\ reg = Idle
    /\ logging = Idle
    /\ pool = Idle
    /\ constructing = Idle
    /\ scoring = Idle

\* ------------------------------------------------- the merger on its own
HeaderAb == <<"#", "#", "#", " ", "A", "b">>

\* the lines prompts are made of: headers, body lines, a blank line
MergerLines == {BlockA, BlockB, HeaderAb, <<"x">>, <<"x", " ">>, << >>}

\* "\n".join(lines)
RECURSIVE Join(_)
Join(lines) ==
    IF Len(lines) = 0 THEN << >>
    ELSE IF Len(lines) = 1 THEN lines[1]
    ELSE lines[1] \o <<NL>> \o Join(Tail(lines))

MergerPrompts ==
    {Join(lines) : lines \in UNION {[1..n -> MergerLines] : n \in 1..MaxLines}}

MergerTargets == {BlockA, BlockB, <<"x">>}

MergerContents == {<<"p">>, << >>}

\* the text between the header line of the block found and the next block,
\* without the newline after the header and the newline before the next header
OwnBody(base_prompt, target_block) ==
    LET start_pos == StartPos(base_prompt, target_block)
        end_pos == EndPos(base_prompt, start_pos)
        last == IF end_pos = Len(base_prompt) /\ NextBlockMatches(base_prompt, start_pos) = {}
                THEN end_pos ELSE end_pos - 1
    IN  IF start_pos + 1 <= last THEN Slice(base_prompt, start_pos + 1, last) ELSE << >>

\* the patches tried on a prompt: every target with every operation and
\* content, and for the blocks found a REPLACE by the block's own body
MergerPatches(base_prompt) ==
    {PromptPatch(t, op, c) :
        t \in MergerTargets, op \in {"APPEND", "REPLACE"}, c \in MergerContents}
    \cup {PromptPatch(t, "REPLACE", OwnBody(base_prompt, t)) :
            t \in {u \in MergerTargets : BlockFound(base_prompt, u)}}

InitMerger ==
    /\ OnlyMerging
    /\ \E base_prompt \in MergerPrompts :
        \E p \in MergerPatches(base_prompt) :
            merging = [pc |-> "call", base_prompt |-> base_prompt, patch |-> p,
                       header |-> -1, result |-> None, error |-> NoError]

\* lines 31-59: one call of the merger; it raises ValueError when the block
\* start regex finds no match, else returns the stripped new prompt
MergerCall ==
    /\ merging.pc = "call"
    /\ LET base_prompt == merging.base_prompt
           p == merging.patch
       IN  IF BlockFound(base_prompt, p.target_block)
           THEN merging' = [merging EXCEPT
                    !.pc = "returned",
                    !.header = SetMin(HeaderMatches(base_prompt, p.target_block)),
                    !.result = BlockBasedMerger(base_prompt, p)]
           ELSE merging' = [merging EXCEPT
                    !.pc = "raised",
                    !.error = BlockNotFound(p.target_block)]
    /\ UNCHANGED besidesMerging

NextMerger == MergerCall

SpecMerger == InitMerger /\ [][NextMerger]_vars

\* ------------------------------------- the validation strategies on their own
\* the examples there are; a dataset holds the first n of them
ValExamples == 1..MaxValExamples

\* kwargs without the key 'example'
NoExample == 0

\* thresholds of the sample strategy, as fractions <<numerator, denominator>>
Thresholds == {<<0, 1>>, <<1, 2>>, <<1, 1>>}

Min(a, b) == IF a <= b THEN a ELSE b

\* random.sample(population, k): k positions, none twice, in any order
RandomSample(population, k) ==
    {sq \in [1..k -> DOMAIN population] :
        \A a, b \in 1..k : a # b => sq[a] # sq[b]}

\* the whole dataset is taken as the batch
EffectiveBatchSizeAll(batch_size, dataset_len) == dataset_len

\* batched.py line 57
EffectiveBatchSize(batch_size, dataset_len) == Min(batch_size, dataset_len)

\* the first example is left out
FullBatchWithoutFirst(ds) == [k \in 1..(Len(ds) - 1) |-> k + 1]

\* full.py line 44: the examples gone through, as positions in dataset order
FullBatch(ds) == [k \in 1..Len(ds) |-> k]

\* the first example of the dataset is validated
SingleBatchOfDataset(example, ds) ==
    IF Len(ds) > 0 THEN <<ds[1]>> ELSE <<example>>

\* single_example.py lines 45-51: the one example validated
SingleBatch(example, ds) == <<example>>

\* the score has to exceed the threshold
MeetsThresholdStrictly(num_correct, size, threshold) ==
    num_correct * threshold[2] > threshold[1] * size

\* sample.py lines 68-73: num_correct / size >= threshold
MeetsThreshold(num_correct, size, threshold) ==
    num_correct * threshold[2] >= threshold[1] * size

\* strategies that return False at the first failing example
FailFast == {"full", "batched", "single_example"}

\* one call of forward, with the strategy object's parameters; passes holds
\* the examples whose prediction under the candidate prompt the scorer accepts
ValidationCall(strategy, size, threshold, n, example, passes) ==
    [pc |-> "forward", strategy |-> strategy, size |-> size,
     threshold |-> threshold, dataset |-> [k \in 1..n |-> k],
     example |-> example, passes |-> passes, batch |-> << >>,
     evaluated |-> << >>, num_correct |-> 0, result |-> None, error |-> NoError]

InitValidation ==
    /\ OnlyValidation
    /\ \E n \in 0..MaxValExamples, passes \in SUBSET ValExamples :
        \/ validation = ValidationCall("full", 0, <<1, 1>>, n, NoExample, passes)
        \/ \E batch_size \in 1..MaxSampleSize :
            validation =
                ValidationCall("batched", batch_size, <<1, 1>>, n, NoExample, passes)
        \/ \E sample_size \in 1..MaxSampleSize, threshold \in Thresholds :
            validation =
                ValidationCall("sample", sample_size, threshold, n, NoExample, passes)
        \/ \E example \in ValExamples \cup {NoExample} :
            validation =
                ValidationCall("single_example", 0, <<1, 1>>, n, example, passes)
        \/ validation = ValidationCall("none", 0, <<1, 1>>, n, NoExample, passes)

\* full.py 40-44, batched.py 54-61, sample.py 60-66, single_example.py 45-47,
\* no_validation.py 31:
\* what forward does before the first Evaluator call
ForwardStart ==
    /\ validation.pc = "forward"
    /\ LET v == validation
           ds == v.dataset
       IN  \/ /\ v.strategy = "full"
              /\ validation' = [v EXCEPT !.pc = "loop", !.batch = FullBatch(ds)]
           \/ /\ v.strategy = "batched"
              /\ IF Len(ds) = 0
                 THEN validation' = [v EXCEPT !.pc = "returned", !.result = Bool(TRUE)]
                 ELSE \E drawn \in RandomSample(ds, EffectiveBatchSize(v.size, Len(ds))) :
                        validation' = [v EXCEPT !.pc = "loop",
                                                !.batch = [k \in DOMAIN drawn |-> ds[drawn[k]]]]
           \/ /\ v.strategy = "sample"
              /\ \E drawn \in (IF Len(ds) < v.size THEN {FullBatch(ds)}
                               ELSE RandomSample(ds, v.size)) :
                    IF Len(drawn) = 0
                    THEN validation' = [v EXCEPT
                            !.pc = "returned",
                            !.result = Dict([is_valid |-> TRUE, score |-> <<1, 1>>])]
                    ELSE validation' = [v EXCEPT !.pc = "loop",
                                                 !.batch = [k \in DOMAIN drawn |-> ds[drawn[k]]]]
           \/ /\ v.strategy = "single_example"
              /\ IF v.example = NoExample
                 THEN validation' = [v EXCEPT
                        !.pc = "raised",
                        !.error = <<"ValueError",
                            "SingleExampleValidationStrategy requires 'example' in kwargs.">>]
                 ELSE validation' = [v EXCEPT !.pc = "loop",
                                              !.batch = SingleBatch(v.example, ds)]
           \/ /\ v.strategy = "none"
              /\ validation' = [v EXCEPT !.pc = "returned", !.result = Bool(TRUE)]
    /\ UNCHANGED besidesValidation

\* full.py 45-53, batched.py 63-70, sample.py 69, single_example.py 51-52:
\* one Evaluator call under the candidate prompt and its scoring
EvaluateOne ==
    /\ validation.pc = "loop"
    /\ Len(validation.evaluated) < Len(validation.batch)
    /\ LET v == validation
           example == v.batch[Len(v.evaluated) + 1]
           is_correct == example \in v.passes
           seen == Append(v.evaluated, example)
       IN  IF v.strategy \in FailFast /\ ~is_correct
           THEN validation' = [v EXCEPT !.pc = "returned", !.evaluated = seen,
                                        !.result = Bool(FALSE)]
           ELSE validation' = [v EXCEPT
                    !.evaluated = seen,
                    !.num_correct = v.num_correct + (IF is_correct THEN 1 ELSE 0)]
    /\ UNCHANGED besidesValidation

\* full.py 60, batched.py 76, sample.py 71-74, single_example.py 52: the
\* return after the last example
ForwardReturn ==
    /\ validation.pc = "loop"
    /\ Len(validation.evaluated) = Len(validation.batch)
    /\ LET v == validation
       IN  IF v.strategy = "sample"
           THEN validation' = [v EXCEPT
                    !.pc = "returned",
                    !.result = Dict([
                        is_valid |-> MeetsThreshold(v.num_correct, Len(v.batch), v.threshold),
                        score |-> <<v.num_correct, Len(v.batch)>>])]
           ELSE validation' = [v EXCEPT !.pc = "returned", !.result = Bool(TRUE)]
    /\ UNCHANGED besidesValidation

NextValidation ==
    \/ ForwardStart
    \/ EvaluateOne
    \/ ForwardReturn

SpecValidation == InitValidation /\ [][NextValidation]_vars

\* ----------------------------------------------- the Evaluator on its own
\* the signature the Evaluator is built with
BaseSignature == [name |-> "Signature", instructions |-> "base instructions"]

EvaluatorPrompts == {"prompt 1", "prompt 2"}

EvaluatorInputs == {"input 1", "input 2"}

\* Signature.with_instructions(prompt): a new signature, the same but for
\* its instructions
WithInstructions(signature, instructions) ==
    [signature EXCEPT !.instructions = instructions]

\* the signature stored in the Evaluator takes the instructions of the call
BaseSignatureOverwritten(signature, instructions) ==
    WithInstructions(signature, instructions)

\* line 38: self._base_signature after with_instructions was called on it
BaseSignatureAfter(signature, instructions) == signature

\* dspy.ChainOfThought(signature): a predictor holding the signature
ChainOfThought(signature) == [signature |-> signature]

\* what the model answers to instructions and inputs
Prediction(instructions, inputs) == <<"Prediction", instructions, inputs>>

InitEvaluator ==
    /\ OnlyEvaluating
    /\ \E n \in 1..MaxCalls :
        \E args \in [1..n -> EvaluatorPrompts \X EvaluatorInputs] :
            evaluating =
                [pc |-> "running",
                 base_signature |-> BaseSignature,
                 calls |-> [c \in 1..n |->
                    [pc |-> "called", prompt |-> args[c][1], kwargs |-> args[c][2],
                     dynamic_signature |-> None, predictor |-> None,
                     result |-> None]],
                 invocations |-> << >>]

\* line 38: dynamic_signature = self._base_signature.with_instructions(prompt)
EvaluatorSign(c) ==
    /\ evaluating.pc = "running"
    /\ evaluating.calls[c].pc = "called"
    /\ evaluating' = [evaluating EXCEPT
            !.base_signature =
                BaseSignatureAfter(evaluating.base_signature, evaluating.calls[c].prompt),
            !.calls[c].dynamic_signature =
                WithInstructions(evaluating.base_signature, evaluating.calls[c].prompt),
            !.calls[c].pc = "signed"]
    /\ UNCHANGED besidesEvaluating

\* line 41: predictor = dspy.ChainOfThought(dynamic_signature)
EvaluatorPredictor(c) ==
    /\ evaluating.pc = "running"
    /\ evaluating.calls[c].pc = "signed"
    /\ evaluating' = [evaluating EXCEPT
            !.calls[c].predictor = ChainOfThought(evaluating.calls[c].dynamic_signature),
            !.calls[c].pc = "ready"]
    /\ UNCHANGED besidesEvaluating

\* line 43: return predictor(**kwargs), the model invoked with the
\* instructions of the predictor's signature
EvaluatorPredict(c) ==
    /\ evaluating.pc = "running"
    /\ evaluating.calls[c].pc = "ready"
    /\ LET call == evaluating.calls[c]
           instructions == call.predictor.signature.instructions
       IN  evaluating' = [evaluating EXCEPT
                !.invocations = Append(@,
                    [call |-> c, instructions |-> instructions, kwargs |-> call.kwargs]),
                !.calls[c].result = Prediction(instructions, call.kwargs),
                !.calls[c].pc = "returned"]
    /\ UNCHANGED besidesEvaluating

NextEvaluator ==
    \E c \in DOMAIN evaluating.calls :
        \/ EvaluatorSign(c)
        \/ EvaluatorPredictor(c)
        \/ EvaluatorPredict(c)

SpecEvaluator == InitEvaluator /\ [][NextEvaluator]_vars

\* ------------------------------------------------- a Registry on its own
RegistryName == "test_registry"

Names == {"FirstName", "SecondName"}

Classes == {"FirstClass", "SecondClass"}

\* self._registry = {name: cls} and nothing else
BoundAlone(bindings, name, cls) == [n \in {name} |-> cls]

\* line 19: self._registry[name] = cls
Bound(bindings, name, cls) ==
    [n \in DOMAIN bindings \cup {name} |-> IF n = name THEN cls ELSE bindings[n]]

\* line 18: the ValueError of a second registration
AlreadyRegistered(name, registry_name) ==
    <<"ValueError", "'", name, "' is already registered in '", registry_name, "'.">>

\* the KeyError without the registry's name
NotFoundSomewhere(name, registry_name) ==
    <<"KeyError", "'", name, "' not found.">>

\* line 27: the KeyError of a lookup
NotFound(name, registry_name) ==
    <<"KeyError", "'", name, "' not found in '", registry_name, "' registry.">>

\* lines 9-11: Registry(name), with no binding
InitRegistry ==
    /\ OnlyReg
    /\ reg = [pc |-> "ready", name |-> RegistryName, bindings |-> << >>,
              log |-> << >>]

\* lines 16-20: the decorator of register(name) applied to a class
Register(name, cls) ==
    /\ reg.pc = "ready"
    /\ Len(reg.log) < MaxOps
    /\ IF RegistryHas(DOMAIN reg.bindings, name)
       THEN reg' = [reg EXCEPT !.log = Append(@,
                [op |-> "register", name |-> name, cls |-> cls,
                 returned |-> "None", error |-> AlreadyRegistered(name, reg.name)])]
       ELSE reg' = [reg EXCEPT
                !.bindings = Bound(reg.bindings, name, cls),
                !.log = Append(@,
                    [op |-> "register", name |-> name, cls |-> cls,
                     returned |-> cls, error |-> NoError])]
    /\ UNCHANGED besidesReg

\* lines 24-28: get(name)
RegistryGet(name) ==
    /\ reg.pc = "ready"
    /\ Len(reg.log) < MaxOps
    /\ IF ~RegistryHas(DOMAIN reg.bindings, name)
       THEN reg' = [reg EXCEPT !.log = Append(@,
                [op |-> "get", name |-> name, cls |-> "None",
                 returned |-> "None", error |-> NotFound(name, reg.name)])]
       ELSE reg' = [reg EXCEPT !.log = Append(@,
                [op |-> "get", name |-> name, cls |-> "None",
                 returned |-> reg.bindings[name], error |-> NoError])]
    /\ UNCHANGED besidesReg

NextRegistry ==
    \E name \in Names :
        \/ \E cls \in Classes : Register(name, cls)
        \/ RegistryGet(name)

SpecRegistry == InitRegistry /\ [][NextRegistry]_vars

\* ---------------------------------------------------------------------
\* The three global registries and the imports that fill them
\* (strategies/registry.py lines 32-34, strategies/__init__.py,
\* strategies/validation/__init__.py, the @register decorators)
\* ---------------------------------------------------------------------

\* what the import of the strategies package registers: __init__.py imports
\* merger.block_based, scoring.common and the validation package, whose
\* __init__.py imports base, batched, full, sample and single_example
BuiltIns ==
    [mergers |-> [block_based |-> "BlockBasedMerger"],
     validators |-> [batched |-> "BatchedTrainingSetValidationStrategy",
                     full |-> "FullValidationStrategy",
                     sample |-> "SampleValidationStrategy",
                     single_example |-> "SingleExampleValidationStrategy"],
     scorers |-> [exact_match |-> "exact_match_scorer",
                  numeric |-> "numeric_scorer"]]

\* the names a program registers and looks up, and the validation_strategy
\* arguments it constructs a PromptOptimizer with
UserNames == {"full", "custom"}

StrategyArgs == DOMAIN BuiltIns.validators \cup {"none", "custom"}

\* one dict shared by the three registries
RegisteredInAll(registries, r, name, cls) ==
    [q \in DOMAIN registries |-> Bound(registries[q], name, cls)]

\* registry.py line 11: every Registry has a _registry dict of its own
RegisteredIn(registries, r, name, cls) ==
    [registries EXCEPT ![r] = Bound(@, name, cls)]

\* what the last operation was and how it ended
LastOp(op, r, name, res, err) ==
    [op |-> op, registry |-> r, name |-> name, returned |-> res,
     error |-> err]

\* registry.py lines 32-34: the three registries exist and are empty; no
\* strategy module has been imported yet
InitRegistries ==
    /\ OnlyReg
    /\ reg = [pc |-> "ready", imported |-> {},
              registries |-> [mergers |-> << >>, validators |-> << >>,
                              scorers |-> << >>],
              last |-> LastOp("start", "None", "None", "None", NoError)]

\* the first import of dspy_optimizer.optimizer or of anything under
\* dspy_optimizer.strategies runs strategies/__init__.py
ImportStrategies ==
    /\ reg.pc = "ready"
    /\ reg.imported = {}
    /\ reg' = [reg EXCEPT
            !.imported = {"strategies"},
            !.registries = BuiltIns,
            !.last = LastOp("import", "None", "strategies", "None", NoError)]
    /\ UNCHANGED besidesReg

\* import dspy_optimizer.strategies.validation.no_validation, which no
\* module of the package imports: line 11 registers "none"
ImportNoValidation ==
    /\ reg.pc = "ready"
    /\ "no_validation" \notin reg.imported
    /\ LET before == IF reg.imported = {} THEN BuiltIns ELSE reg.registries
       IN  reg' = [reg EXCEPT
            !.imported = {"strategies", "no_validation"},
            !.registries = RegisteredIn(before, "validators", "none",
                                        "NoValidationStrategy"),
            !.last = LastOp("import", "None", "no_validation", "None", NoError)]
    /\ UNCHANGED besidesReg

\* registry.py lines 16-20, on one of the three registries
RegisterIn(r, name, cls) ==
    /\ reg.pc = "ready"
    /\ reg.imported # {}
    /\ IF RegistryHas(DOMAIN reg.registries[r], name)
       THEN reg' = [reg EXCEPT !.last =
                LastOp("register", r, name, "None", AlreadyRegistered(name, r))]
       ELSE reg' = [reg EXCEPT
                !.registries = RegisteredIn(@, r, name, cls),
                !.last = LastOp("register", r, name, cls, NoError)]
    /\ UNCHANGED besidesReg

\* registry.py lines 24-28, on one of the three registries
GetFrom(r, name) ==
    /\ reg.pc = "ready"
    /\ reg.imported # {}
    /\ IF ~RegistryHas(DOMAIN reg.registries[r], name)
       THEN reg' = [reg EXCEPT !.last =
                LastOp("get", r, name, "None", NotFound(name, r))]
       ELSE reg' = [reg EXCEPT !.last =
                LastOp("get", r, name, reg.registries[r][name], NoError)]
    /\ UNCHANGED besidesReg

\* optimizer.py lines 47-51: PromptOptimizer(signature, initial_prompt,
\* validation_strategy=name), the merger being the default one
ConstructOptimizer(name) ==
    /\ reg.pc = "ready"
    /\ reg.imported # {}
    /\ IF ~RegistryHas(DOMAIN reg.registries["mergers"], "block_based")
       THEN reg' = [reg EXCEPT !.last =
                LastOp("construct", "mergers", name, "None",
                       NotFound("block_based", "mergers"))]
       ELSE IF ~RegistryHas(DOMAIN reg.registries["validators"], name)
       THEN reg' = [reg EXCEPT !.last =
                LastOp("construct", "validators", name, "None",
                       NotFound(name, "validators"))]
       ELSE reg' = [reg EXCEPT !.last =
                LastOp("construct", "validators", name,
                       reg.registries["validators"][name], NoError)]
    /\ UNCHANGED besidesReg

NextRegistries ==
    \/ ImportStrategies
    \/ ImportNoValidation
    \/ \E r \in DOMAIN BuiltIns, name \in UserNames : RegisterIn(r, name, "UserClass")
    \/ \E r \in DOMAIN BuiltIns, name \in UserNames : GetFrom(r, name)
    \/ \E name \in StrategyArgs : ConstructOptimizer(name)

SpecRegistries == InitRegistries /\ [][NextRegistries]_vars

\* ---------------------------------------------------------------------
\* HistoryCallback (callback/history_callback.py): a log of the hook calls
\* ---------------------------------------------------------------------

\* the states handed to the hooks: dicts from text keys to values
HookStates ==
    { [prompt |-> "Initial Prompt"],
      [sample |-> "sample1", patch |-> "patch1"],
      [prompt |-> "Updated Prompt", is_valid |-> "True"] }

\* an entry that holds the event name alone
LogEntryWithoutState(event_name, st) == [event |-> event_name]

\* an entry that is the caller's dict itself: it reads as the run state reads
\* now
LogEntryOfLiveState(event_name, st) ==
    [k \in {"event"} \cup DOMAIN state |->
        IF k \in DOMAIN state THEN state[k] ELSE event_name]

\* line 26: log_entry = {"event": event_name, **state}; a later key of a
\* dict display replaces an earlier one
LogEntry(event_name, st) ==
    [k \in {"event"} \cup DOMAIN st |->
        IF k \in DOMAIN st THEN st[k] ELSE event_name]

\* lines 20-22: HistoryCallback(); calls is the hook calls made on it
InitHistory ==
    /\ OnlyLogging
    /\ logging = [pc |-> "ready", history |-> << >>, calls |-> << >>]

\* lines 24-27: _log_event(event_name, state)
_log_event(event_name, st) ==
    /\ logging.pc = "ready"
    /\ Len(logging.calls) < MaxHookCalls
    /\ logging' = [logging EXCEPT
            !.history = Append(@, LogEntry(event_name, st)),
            !.calls = Append(@, [hook |-> event_name, state |-> st])]
    /\ UNCHANGED besidesLogging

\* lines 29-31
on_run_start(st) == _log_event("run_start", st)

\* lines 33-35
on_refinement_start(st) == _log_event("refinement_start", st)

\* lines 41-43
on_validation_start(st) == _log_event("validation_start", st)

\* lines 45-47
on_validation_end(st) == _log_event("validation_end", st)

\* lines 49-51
on_merge_success(st) == _log_event("merge_success", st)

\* lines 53-55
on_merge_failure(st) == _log_event("merge_failure", st)

\* lines 37-39
on_refinement_end(st) == _log_event("refinement_end", st)

\* lines 57-59
on_run_end(st) == _log_event("run_end", st)

NextHistory ==
    \/ \E st \in HookStates : on_run_start(st)
    \/ \E st \in HookStates : on_refinement_start(st)
    \/ \E st \in HookStates : on_validation_start(st)
    \/ \E st \in HookStates : on_validation_end(st)
    \/ \E st \in HookStates : on_merge_success(st)
    \/ \E st \in HookStates : on_merge_failure(st)
    \/ \E st \in HookStates : on_refinement_end(st)
    \/ \E st \in HookStates : on_run_end(st)

SpecHistory == InitHistory /\ [][NextHistory]_vars

\* ---------------------------------------------------------------------
\* InvoicePromptOptimiser._evaluate (invoice_amount_optimizer.py): the
\* accuracy of a prompt, computed by a pool of threads
\* ---------------------------------------------------------------------

\* amounts are counted in thousandths of a euro
AmountTol == 2

Abs(x) == IF x < 0 THEN -x ELSE x

\* close only when the two amounts are the same
NumbersAreEqual(a, b, tol) == a = b

\* lines 179-180: math.isclose(a, b, abs_tol=tol)
numbers_are_close(a, b, tol) == Abs(a - b) <= tol

\* the pairs (file, gold) a dataset is made of
InvoicePairs == { [file |-> 1, gold |-> 1000], [file |-> 2, gold |-> 1003] }

\* the amounts the extractor answers
Amounts == {1000, 1002, 1003}

InvoiceDatasets ==
    UNION { [1..n -> InvoicePairs] : n \in 1..MaxPoolExamples }

\* lines 119-122: the instructions AmountExtractor is declared with
AmountExtractorDoc == "Given a file containing a Dutch invoice"

\* the prompt under evaluation and one optimize evaluated before it
FinalPrompt == "final prompt"
EarlierPrompt == "earlier prompt"

RECURSIVE CountTrue(_)
\* line 337: sum(results)
CountTrue(results) ==
    IF results = << >> THEN 0
    ELSE (IF Head(results) THEN 1 ELSE 0) + CountTrue(Tail(results))

\* the results in the order the calls completed
ResultsAsCompleted(futures, completed) ==
    [k \in DOMAIN completed |-> futures[completed[k]]]

\* line 336: list(ex.map(_worker, dataset)) yields the results of the
\* futures in the order of the dataset
MapResults(futures, completed) ==
    [k \in DOMAIN completed |-> futures[k]]

\* lines 327-335: _evaluate(prompt, dataset) has built the pool and
\* submitted one call of _worker per pair; the instructions of the shared
\* extractor are the declared ones or those of an earlier forward
InitPool ==
    /\ OnlyPool
    /\ \E dataset_ \in InvoiceDatasets, workers \in 1..MaxPoolWorkers,
          instructions \in {AmountExtractorDoc, EarlierPrompt} :
        pool = [pc |-> "running", prompt |-> FinalPrompt,
                dataset |-> dataset_, parallel_workers |-> workers,
                instructions |-> instructions, next |-> 1,
                thread |-> [w \in 1..workers |-> [pc |-> "idle", item |-> 0]],
                invoked |-> << >>, futures |-> << >>, completed |-> << >>,
                correct |-> 0]

\* a thread of the pool takes the next submitted call from the queue
TakeWork(w) ==
    /\ pool.pc = "running"
    /\ w \in DOMAIN pool.thread
    /\ pool.thread[w].pc = "idle"
    /\ pool.next <= Len(pool.dataset)
    /\ pool' = [pool EXCEPT !.thread[w] = [pc |-> "forward", item |-> pool.next],
                            !.next = @ + 1]
    /\ UNCHANGED besidesPool

\* line 211: self.extractor.predict.signature.instructions = prompt, on
\* the extractor all the threads share
SetInstructions(w) ==
    /\ pool.pc = "running"
    /\ w \in DOMAIN pool.thread
    /\ pool.thread[w].pc = "forward"
    /\ pool' = [pool EXCEPT !.instructions = pool.prompt,
                            !.thread[w].pc = "extract"]
    /\ UNCHANGED besidesPool

\* lines 214-216 and 332-333: the extractor is invoked under the
\* instructions it holds now and answers an amount; _worker returns
\* whether the amount is close to the gold one
Extract(w, amt) ==
    /\ pool.pc = "running"
    /\ w \in DOMAIN pool.thread
    /\ pool.thread[w].pc = "extract"
    /\ LET item == pool.thread[w].item
           gold == pool.dataset[item].gold
       IN  pool' = [pool EXCEPT
                !.invoked = Put(@, item, [instructions |-> pool.instructions,
                                          file |-> pool.dataset[item].file,
                                          amount |-> amt]),
                !.futures = Put(@, item, numbers_are_close(amt, gold, AmountTol)),
                !.completed = Append(@, item),
                !.thread[w] = [pc |-> "idle", item |-> 0]]
    /\ UNCHANGED besidesPool

\* lines 335-338: every call is done; the pool is shut down, the results
\* are listed and the accuracy is returned as correct / len(dataset)
EvaluateReturn ==
    /\ pool.pc = "running"
    /\ Len(pool.completed) = Len(pool.dataset)
    /\ LET results == MapResults(pool.futures, pool.completed)
           correct == CountTrue(results)
       IN  pool' = [pc |-> "returned", prompt |-> pool.prompt,
                    dataset |-> pool.dataset,
                    parallel_workers |-> pool.parallel_workers,
                    invoked |-> pool.invoked, completed |-> pool.completed,
                    results |-> results, correct |-> correct,
                    returned |-> <<correct, Len(pool.dataset)>>]
    /\ UNCHANGED besidesPool

NextPool ==
    \/ \E w \in 1..MaxPoolWorkers : TakeWork(w)
    \/ \E w \in 1..MaxPoolWorkers : SetInstructions(w)
    \/ \E w \in 1..MaxPoolWorkers, amt \in Amounts : Extract(w, amt)
    \/ EvaluateReturn

SpecPool == InitPool /\ [][NextPool]_vars

\* ---------------------------------------------------------------------
\* InvoicePromptOptimiser.optimise (invoice_amount_optimizer.py lines
\* 279-323): the refinement loop over a labelled dataset
\* ---------------------------------------------------------------------

\* the datasets optimise is given, the empty one among them
OptimiseDatasets ==
    UNION { [1..n -> InvoicePairs] : n \in 0..MaxOptExamples }

\* line 280: prompt = self.base_prompt
BasePrompt == <<"base">>

\* line 320: refine_pred.prompt, the text the reviewer answers in this attempt
RefinedPrompt(idx, attempt) == <<"refined", idx, attempt>>

\* lines 300-302: merge_res.prompt, the text the merger answers for this example
MergedPrompt(idx) == <<"merged", idx>>

\* the attempt before the last one is taken for the last
IsLastAttemptEarly(attempt, n) == attempt + 1 >= n

\* line 305: attempt == self.cfg.max_refine_iters
IsLastAttempt(attempt, n) == attempt = n

\* lines 279-281: optimise(dataset) has set prompt and flagged; evals,
\* refines and merges are the calls made of eval_mod, refine_mod, merge_mod
InitOptimise ==
    /\ OnlyPool
    /\ \E dataset_ \in OptimiseDatasets, iters \in 0..MaxOptIters :
        pool = [pc |-> "attempt", max_refine_iters |-> iters, dataset |-> dataset_,
                idx |-> 0, attempt |-> 0, prompt |-> BasePrompt,
                history |-> << >>, flagged |-> << >>,
                evals |-> << >>, refines |-> << >>, merges |-> << >>,
                returned |-> None]

\* lines 283, 287-288: the next sample begins with an empty history
NextSample(p) ==
    [p EXCEPT !.idx = @ + 1, !.attempt = 0, !.history = << >>]

\* lines 288-320: one pass of the loop over the attempts: the evaluation of
\* the sample, then the merge and break, the flagging and break, or the
\* refinement
OptimiseAttempt(amt) ==
    /\ pool.pc = "attempt"
    /\ pool.idx < Len(pool.dataset)
    /\ LET gold == pool.dataset[pool.idx + 1].gold
           close == numbers_are_close(amt, gold, AmountTol)
           evaluated == [pool EXCEPT !.evals =
                Append(@, [idx |-> pool.idx, attempt |-> pool.attempt,
                           prompt |-> pool.prompt, correct |-> close])]
       IN  IF close
           THEN IF pool.attempt > 0
                THEN pool' = NextSample([evaluated EXCEPT
                        !.merges = Append(@, [idx |-> pool.idx, base |-> pool.prompt,
                                              new |-> pool.history[Len(pool.history)]]),
                        !.prompt = MergedPrompt(pool.idx)])
                ELSE pool' = NextSample(evaluated)
           ELSE IF IsLastAttempt(pool.attempt, pool.max_refine_iters)
                THEN pool' = NextSample([evaluated EXCEPT
                        !.flagged = Append(@, pool.idx)])
                ELSE LET refined == [evaluated EXCEPT
                            !.refines = Append(@, [idx |-> pool.idx,
                                                   attempt |-> pool.attempt,
                                                   history |-> pool.history]),
                            !.history = Append(@, RefinedPrompt(pool.idx, pool.attempt)),
                            !.prompt = RefinedPrompt(pool.idx, pool.attempt)]
                     IN  IF InRange(pool.attempt + 1, pool.max_refine_iters + 1)
                         THEN pool' = [refined EXCEPT !.attempt = @ + 1]
                         ELSE pool' = NextSample(refined)
    /\ UNCHANGED besidesPool

\* lines 322-323 and 329-338: the accuracy of the final prompt and the
\* record returned; correct / len(dataset) raises ZeroDivisionError for an
\* empty dataset
OptimiseReturn ==
    /\ pool.pc = "attempt"
    /\ pool.idx = Len(pool.dataset)
    /\ \E amts \in [DOMAIN pool.dataset -> Amounts] :
        LET results == [k \in DOMAIN pool.dataset |->
                            numbers_are_close(amts[k], pool.dataset[k].gold, AmountTol)]
            correct == CountTrue(results)
        IN  IF Len(pool.dataset) = 0
            THEN pool' = [pool EXCEPT !.pc = "raised",
                                      !.returned = <<"ZeroDivisionError">>]
            ELSE pool' = [pool EXCEPT !.pc = "returned",
                            !.returned = [final_prompt |-> pool.prompt,
                                          flagged |-> pool.flagged,
                                          accuracy |-> <<correct, Len(pool.dataset)>>]]
    /\ UNCHANGED besidesPool

NextOptimise ==
    \/ \E amt \in Amounts : OptimiseAttempt(amt)
    \/ OptimiseReturn

SpecOptimise == InitOptimise /\ [][NextOptimise]_vars

\* ---------------------------------------------------------------------
\* The construction of the batched and the sample validation strategies
\* (strategies/validation/batched.py, sample.py)
\* ---------------------------------------------------------------------

\* batched.py line 25: batch_size when none is given
BatchSizeDefault == 10

\* sample.py line 22: sample_size when none is given, as the optimizer
\* constructs the strategy
SampleSizeDefault == 3

\* the sizes and the thresholds (numerator, denominator) given to __init__
SizeArgs == (-MaxSizeArg)..MaxSizeArg \cup {SampleSizeDefault, BatchSizeDefault}

ThresholdArgs ==
    {<<-1, 2>>, <<-1, 10>>, <<0, 1>>, <<1, 2>>, <<1, 1>>, <<11, 10>>, <<3, 2>>}

\* a threshold under 0.0 is the only one refused
ThresholdNotNegative(threshold) == 0 <= threshold[1]

\* sample.py line 34: 0.0 <= threshold <= 1.0
ThresholdInUnitRange(threshold) ==
    0 <= threshold[1] /\ threshold[1] <= threshold[2]

\* batched.py lines 31-33
BatchedInit(batch_size) ==
    IF batch_size <= 0
    THEN [pc |-> "raised", cls |-> "batched", batch_size |-> batch_size,
          error |-> [type |-> "ValueError",
                     message |-> "batch_size must be a positive integer."],
          calls |-> 0]
    ELSE [pc |-> "constructed", cls |-> "batched", batch_size |-> batch_size,
          self |-> [batch_size |-> batch_size], calls |-> 0]

\* sample.py lines 31-37
SampleInit(sample_size, threshold) ==
    IF ~(0 < sample_size)
    THEN [pc |-> "raised", cls |-> "sample", sample_size |-> sample_size,
          threshold |-> threshold,
          error |-> [type |-> "ValueError",
                     message |-> "Sample size must be greater than 0."],
          calls |-> 0]
    ELSE IF ~ThresholdInUnitRange(threshold)
    THEN [pc |-> "raised", cls |-> "sample", sample_size |-> sample_size,
          threshold |-> threshold,
          error |-> [type |-> "ValueError",
                     message |-> "Threshold must be between 0.0 and 1.0."],
          calls |-> 0]
    ELSE [pc |-> "constructed", cls |-> "sample", sample_size |-> sample_size,
          threshold |-> threshold,
          self |-> [sample_size |-> sample_size, threshold |-> threshold],
          calls |-> 0]

\* a caller about to construct a strategy with the arguments it chose
InitConstruction ==
    /\ OnlyConstructing
    /\ \/ \E batch_size \in SizeArgs :
            constructing = [pc |-> "new", cls |-> "batched",
                            batch_size |-> batch_size]
       \/ \E sample_size \in SizeArgs, threshold \in ThresholdArgs :
            constructing = [pc |-> "new", cls |-> "sample",
                            sample_size |-> sample_size, threshold |-> threshold]

\* BatchedTrainingSetValidationStrategy(batch_size)
ConstructBatched ==
    /\ constructing.pc = "new"
    /\ constructing.cls = "batched"
    /\ constructing' = BatchedInit(constructing.batch_size)
    /\ UNCHANGED besidesConstructing

\* SampleValidationStrategy(sample_size, threshold)
ConstructSample ==
    /\ constructing.pc = "new"
    /\ constructing.cls = "sample"
    /\ constructing' = SampleInit(constructing.sample_size, constructing.threshold)
    /\ UNCHANGED besidesConstructing

\* a validation call on the strategy that was constructed
CallConstructed ==
    /\ constructing.pc = "constructed"
    /\ constructing.calls < MaxCalls
    /\ constructing' = [constructing EXCEPT !.calls = @ + 1]
    /\ UNCHANGED besidesConstructing

NextConstruction ==
    \/ ConstructBatched
    \/ ConstructSample
    \/ CallConstructed

SpecConstruction == InitConstruction /\ [][NextConstruction]_vars

\* ---------------------------------------------------------------------
\* exact_match_scorer (strategies/scoring/common.py)
\* ---------------------------------------------------------------------

\* the values of a field: an int, or a text as its characters
IntValue(n) == [type |-> "int", n |-> n, s |-> << >>]
TextValue(s) == [type |-> "str", n |-> 0, s |-> s]

FieldValues ==
    { IntValue(12), IntValue(-7), TextValue(<<"1", "2">>), TextValue(<<"a", "b">>) }

DigitChar(d) == <<"0", "1", "2", "3", "4", "5", "6", "7", "8", "9">>[d + 1]

RECURSIVE Digits(_)
Digits(n) ==
    IF n < 10 THEN <<DigitChar(n)>>
    ELSE Digits(n \div 10) \o <<DigitChar(n % 10)>>

\* a float that is a positive number of hundredths
FloatValue(hundredths) == [type |-> "float", n |-> hundredths, s |-> << >>]

\* str(value): the decimal digits of an int, a text as it is, the shortest
\* decimal form of a float
Str(value) ==
    IF value.type = "str" THEN value.s
    ELSE IF value.type = "float"
    THEN Digits(value.n \div 100) \o <<".", DigitChar((value.n % 100) \div 10)>>
         \o (IF value.n % 10 = 0 THEN << >> ELSE <<DigitChar(value.n % 10)>>)
    ELSE IF value.n < 0 THEN <<"-">> \o Digits(-value.n)
    ELSE Digits(value.n)

\* the examples: fields in the order they were given, with the input keys
\* declared by with_inputs("input")
ExampleKeys ==
    { <<"input">>, <<"input", "output">>, <<"output", "input">>,
      <<"input", "output", "other_field">>,
      <<"input", "other_field", "output">> }

Range(sq) == {sq[k] : k \in DOMAIN sq}

ScoredExamples ==
    UNION { { [keys |-> keys, input_keys |-> {"input"},
               store |-> [k \in Range(keys) |->
                            IF k = "input" THEN TextValue(<<"q">>) ELSE outs[k]]] :
              outs \in [Range(keys) \ {"input"} -> FieldValues] } :
            keys \in ExampleKeys }

\* the predictions: any of the output fields, with any value
ScoredPredictions ==
    UNION { [fields -> FieldValues] : fields \in SUBSET {"output", "other_field"} }

\* the output field declared last
LastOutputKey(output_keys) == output_keys[Len(output_keys)]

\* line 31: output_key = output_keys[0]
FirstOutputKey(output_keys) == output_keys[1]

\* lines 26-43
exact_match_scorer(example, pred) ==
    LET input_keys == example.input_keys
        output_keys == SelectSeq(example.keys, LAMBDA k : k \notin input_keys)
    IN  IF output_keys = << >> THEN FALSE
        ELSE LET output_key == FirstOutputKey(output_keys)
             IN  IF output_key \notin DOMAIN pred THEN FALSE
                 ELSE Str(example.store[output_key]) = Str(pred[output_key])

\* a caller holding an example and the prediction made for it
InitScoring ==
    /\ OnlyScoring
    /\ \E example \in ScoredExamples, pred \in ScoredPredictions :
        scoring = [pc |-> "call", example |-> example, prediction |-> pred]

\* exact_match_scorer(example, prediction) returns
ExactMatchScore ==
    /\ scoring.pc = "call"
    /\ scoring' = [pc |-> "returned", example |-> scoring.example,
                   prediction |-> scoring.prediction,
                   returned |-> exact_match_scorer(scoring.example,
                                                   scoring.prediction)]
    /\ UNCHANGED besidesScoring

NextScoring == ExactMatchScore

SpecScoring == InitScoring /\ [][NextScoring]_vars

\* ---------------------------------------------------------------------
\* numeric_scorer (strategies/scoring/common.py)
\* ---------------------------------------------------------------------

\* line 48: tolerance = 1e-6, held as its inverse
ToleranceInverse == 1000000

\* the gold values of the output field and the texts predicted for it
GoldValues ==
    { FloatValue(123456), FloatValue(123450), IntValue(1234),
      TextValue(<<"1", "2", "3", "4", ".", "5", "6">>),
      TextValue(<<"1", "0", "0", "0", "0", "0", "0">>) }

PredictedTexts ==
    { <<"1", "2", "3", "4", ".", "5", "6">>,
      <<"1", ",", "2", "3", "4", ".", "5", "6">>,
      <<"1", "2", "3", "4", ",", "5", "6">>,
      <<" ", "1", "2", "3", "4", ".", "5", "6", NL>>,
      <<"1", "2", "3", "4", ".", "5", "7">>,
      <<"1", "2", "3", "4", ".", "5">>,
      <<"1", "2", "3", "4">>,
      <<"-", "1", "2", "3", "4">>,
      <<"1", ",", "0", "0", "0", ",", "0", "0", "1">>,
      <<"1", "0", "0", "0", "0", "0", "2">>,
      <<"N", "/", "A">>,
      <<"1", ".", "2", ".", "3">>,
      << >> }

\* s.replace(old, ""): every occurrence of the character is removed
Remove(s, old) == SelectSeq(s, LAMBDA c : c # old)

\* s.replace(old, new), for single characters
Replace(s, old, new) == [k \in DOMAIN s |-> IF s[k] = old THEN new ELSE s[k]]

IsDigit(c) == \E d \in 0..9 : DigitChar(d) = c

RECURSIVE NumberOf(_)
\* the number a sequence of digits writes
NumberOf(digits) ==
    IF digits = << >> THEN 0
    ELSE NumberOf(SubSeq(digits, 1, Len(digits) - 1)) * 10
         + (CHOOSE d \in 0..9 : DigitChar(d) = digits[Len(digits)])

\* float(s) of a text without blanks around it: a sign, digits and at most
\* one point, at least one digit; the value is num / 10^dec. Anything else
\* raises ValueError (ok is FALSE)
Float(s) ==
    LET signed == s # << >> /\ s[1] \in {"-", "+"}
        body == IF signed THEN Tail(s) ELSE s
        points == {k \in DOMAIN body : body[k] = "."}
        digits == Remove(body, ".")
    IN  IF \/ Cardinality(points) > 1
           \/ digits = << >>
           \/ \E k \in DOMAIN digits : ~IsDigit(digits[k])
        THEN [ok |-> FALSE, num |-> 0, dec |-> 0]
        ELSE [ok |-> TRUE,
              num |-> (IF signed /\ s[1] = "-" THEN -1 ELSE 1) * NumberOf(digits),
              dec |-> IF points = {} THEN 0
                      ELSE Len(body) - (CHOOSE k \in points : TRUE)]

\* lines 77-84: parse_numeric(value)
parse_numeric(value) ==
    LET stripped == Strip(Str(value))
        without_commas == Remove(stripped, ",")
    IN  Float(Replace(without_commas, ",", "."))

RECURSIVE Pow10(_)
Pow10(k) == IF k = 0 THEN 1 ELSE 10 * Pow10(k - 1)

\* line 95: math.isclose(a, b, rel_tol=tolerance), on numbers num / 10^dec
\* brought to one denominator: |a - b| <= tolerance * max(|a|, |b|)
IsClose(a, b) ==
    LET dec == IF a.dec >= b.dec THEN a.dec ELSE b.dec
        x == a.num * Pow10(dec - a.dec)
        y == b.num * Pow10(dec - b.dec)
        largest == IF Abs(x) >= Abs(y) THEN Abs(x) ELSE Abs(y)
    IN  Abs(x - y) <= largest \div ToleranceInverse

\* lines 65-95
numeric_scorer(example, pred) ==
    LET input_keys == example.input_keys
        output_keys == SelectSeq(example.keys, LAMBDA k : k \notin input_keys)
    IN  IF output_keys = << >> THEN FALSE
        ELSE LET output_key == output_keys[1]
                 expected_float == parse_numeric(example.store[output_key])
             IN  IF ~expected_float.ok THEN FALSE
                 ELSE IF output_key \notin DOMAIN pred THEN FALSE
                 ELSE LET predicted_float == parse_numeric(pred[output_key])
                      IN  IF ~predicted_float.ok THEN FALSE
                          ELSE IsClose(expected_float, predicted_float)

\* a caller holding an example with a gold value and the prediction made
InitNumericScoring ==
    /\ OnlyScoring
    /\ \E gold \in GoldValues,
          pred \in {<< >>} \cup {[output |-> TextValue(t)] : t \in PredictedTexts} :
        scoring = [pc |-> "call",
                   example |-> [keys |-> <<"input", "output">>,
                                input_keys |-> {"input"},
                                store |-> [input |-> TextValue(<<"q">>),
                                           output |-> gold]],
                   prediction |-> pred]

\* numeric_scorer(example, prediction) returns
NumericScore ==
    /\ scoring.pc = "call"
    /\ scoring' = [pc |-> "returned", example |-> scoring.example,
                   prediction |-> scoring.prediction,
                   returned |-> numeric_scorer(scoring.example,
                                               scoring.prediction)]
    /\ UNCHANGED besidesScoring

SpecNumericScoring == InitNumericScoring /\ [][NumericScore]_vars

\* ---------------------------------------------------------------------
\* A run of PromptOptimizer.optimize with the full validation strategy, no
\* callbacks, and an evaluator and a scorer that are functions of the prompt
\* and the example (optimizer.py lines 86-195, validation/full.py)
\* ---------------------------------------------------------------------

\* prompts by identity, 0 being the initial one; examples by position
RunPrompts == 0..MaxRunPrompts

\* the worlds: which example is scored correct under which prompt
Worlds == SUBSET (RunPrompts \X (1..MaxRunExamples))

\* the first example alone decides
FullValidationOfFirst(passes, candidate, n) ==
    n = 0 \/ <<candidate, 1>> \in passes

\* full.py lines 43-60: False at the first example scored wrong, True when
\* the loop ends
FullValidation(passes, candidate, n) ==
    \A e \in 1..n : <<candidate, e>> \in passes

\* optimize(dataset, scorer) is called on a new PromptOptimizer
InitRun ==
    /\ OnlyRunning
    /\ \E passes \in Worlds, n \in 0..MaxRunExamples, iters \in 0..MaxRunIters :
        running = [pc |-> "example", passes |-> passes, n |-> n,
                   max_refine_iters |-> iters, prompt |-> 0, i |-> 0,
                   refine_iter |-> 0, candidate |-> 0,
                   evaluations |-> << >>, commits |-> << >>]

\* optimizer.py lines 86-107: the initial evaluation of example i
RunEvaluate ==
    /\ running.pc = "example"
    /\ running.i < running.n
    /\ LET is_correct == <<running.prompt, running.i + 1>> \in running.passes
           seen == Append(running.evaluations,
                          [example |-> running.i + 1, prompt |-> running.prompt,
                           is_correct |-> is_correct,
                           commits |-> Len(running.commits)])
       IN  IF is_correct \/ ~InRange(0, running.max_refine_iters)
           THEN running' = [running EXCEPT !.evaluations = seen, !.i = @ + 1]
           ELSE running' = [running EXCEPT !.evaluations = seen,
                                           !.refine_iter = 0, !.pc = "refine"]
    /\ UNCHANGED besidesRunning

\* lines 113-146: the Refiner proposes a patch and the merger builds the
\* candidate, any prompt; or the patch is malformed or its block is not
\* found, and the ValueError ends the run
RunRefine ==
    /\ running.pc = "refine"
    /\ \/ \E c \in RunPrompts :
            running' = [running EXCEPT !.candidate = c, !.pc = "validate"]
       \/ running' = [running EXCEPT !.pc = "raised"]
    /\ UNCHANGED besidesRunning

\* lines 152-190: the full validation of the candidate on the dataset,
\* then the commit and the break, or the next attempt
RunValidate ==
    /\ running.pc = "validate"
    /\ IF FullValidation(running.passes, running.candidate, running.n)
       THEN running' = [running EXCEPT
                !.prompt = running.candidate,
                !.commits = Append(@, [example |-> running.i + 1,
                                       candidate |-> running.candidate]),
                !.i = @ + 1, !.pc = "example"]
       ELSE IF InRange(running.refine_iter + 1, running.max_refine_iters)
       THEN running' = [running EXCEPT !.refine_iter = @ + 1, !.pc = "refine"]
       ELSE running' = [running EXCEPT !.i = @ + 1, !.pc = "example"]
    /\ UNCHANGED besidesRunning

\* lines 192-195: the loop is over, optimize returns self.prompt
RunReturn ==
    /\ running.pc = "example"
    /\ running.i = running.n
    /\ running' = [running EXCEPT !.pc = "done"]
    /\ UNCHANGED besidesRunning

NextRun ==
    \/ RunEvaluate
    \/ RunRefine
    \/ RunValidate
    \/ RunReturn

SpecRun == InitRun /\ [][NextRun]_vars

\* ------------------------------------ Evaluator calls inside a validation
\* the numbers of Evaluator calls a validation strategy can have made when it
\* returns result on a non-empty dataset of n examples: full goes through all
\* examples when it accepts and stops at the first failing one when it
\* rejects; sample evaluates min(sample_size, n) examples
ValidatorEvaluations(name, result, n) ==
    IF name = "sample" THEN {IF SampleSizeDefault < n THEN SampleSizeDefault ELSE n}
    ELSE IF IsValidOf(result) THEN {n}
    ELSE 1..n

\* ------------------------------------------------- observations on a run
\* a validation result that reports the candidate valid
ReportedValid(res) ==
    \/ res.kind = "bool" /\ res.value = TRUE
    \/ res.kind = "dict" /\ "is_valid" \in DOMAIN res.items /\ res.items["is_valid"] = TRUE

CallsOf(fn, e) == {k \in DOMAIN calls : calls[k].fn = fn /\ calls[k].example = e}

Examples == 0..(Len(dataset) - 1)

\* example e failed its initial evaluation
FailedInitial(e) ==
    \E k \in CallsOf("evaluator", e) : ~ScorerFn(dataset[e + 1], calls[k].res)

\* a candidate built for example e was reported valid
Accepted(e) == \E k \in CallsOf("validator", e) : ReportedValid(calls[k].res)

\* the loop has gone on past example e
Resolved(e) == e < i

\* example e failed, its retry loop ran to its end and nothing was accepted
Exhausted(e) == Resolved(e) /\ FailedInitial(e) /\ ~Accepted(e)

\* the hook calls callback cb received, in order
HooksOf(cb) == SelectSeq(hooks, LAMBDA h : h.cb = cb)

CallbackIds == {callbacks[n] : n \in DOMAIN callbacks}

\* hook call h belongs to attempt a of example e
OfAttempt(h, e, a) ==
    /\ "refinement_attempt" \in DOMAIN h.state
    /\ h.state["example_id"] = e
    /\ h.state["refinement_attempt"] = a

\* ------------------------------------------------------------------ claims
\* C1: the accepted prompt (self.prompt, mirrored in state['prompt']) is the
\* initial prompt or a candidate the validation strategy reported valid, and
\* it only changes by being replaced with the candidate whose validation
\* (reporting valid) was the call made directly before.
C1AcceptedState ==
    /\ ("prompt" \in DOMAIN state => state["prompt"] = prompt)
    /\ \/ prompt = InitialPrompt
       \/ \E k \in DOMAIN calls :
            /\ calls[k].fn = "validator"
            /\ calls[k].arg = prompt
            /\ ReportedValid(calls[k].res)

C1CommitStep ==
    prompt' # prompt =>
        /\ calls # << >>
        /\ calls[Len(calls)].fn = "validator"
        /\ ReportedValid(calls[Len(calls)].res)
        /\ prompt' = calls[Len(calls)].arg
        /\ prompt' = candidate_prompt
        /\ calls' = calls

C1AcceptedPromptValidated == [](C1AcceptedState) /\ [][C1CommitStep]_vars

C1Witness ==
    /\ pc = "example"
    /\ prompt # InitialPrompt
    /\ state["prompt"] = prompt

\* C2: the number of refinement attempts of an example never exceeds
\* max_refine_iters, and an example that failed its initial evaluation and
\* whose retry loop ended without an accepted candidate had exactly
\* max_refine_iters Refiner, merger and validator calls and, per callback,
\* refinement_start notifications with refinement_attempt = 1, 2, ... in order.
RefinementStarts(cb, e) ==
    {k \in DOMAIN hooks :
        /\ hooks[k].event = "refinement_start"
        /\ hooks[k].cb = cb
        /\ hooks[k].state["example_id"] = e}

C2RetryBound ==
    \A e \in Examples :
        LET exhausted == Exhausted(e)
        IN  /\ \A fn \in {"refiner", "merger", "validator"} :
                LET C == CallsOf(fn, e)
                IN  /\ Cardinality(C) <= max_refine_iters
                    /\ exhausted =>
                        /\ Cardinality(C) = max_refine_iters
                        /\ {calls[k].attempt : k \in C} = 1..max_refine_iters
            /\ \A cb \in CallbackIds :
                LET R == RefinementStarts(cb, e)
                IN  /\ Cardinality(R) <= max_refine_iters
                    /\ \A k \in R :
                        hooks[k].state["refinement_attempt"] =
                            Cardinality({m \in R : m <= k})
                    /\ exhausted => Cardinality(R) = max_refine_iters

C2Witness ==
    /\ max_refine_iters >= 2
    /\ callbacks # << >>
    /\ \E e \in Examples : Exhausted(e) /\ Cardinality(CallsOf("validator", e)) >= 2

\* C3: an example whose retry budget was exhausted without an accepted
\* candidate is recorded as flagged in the run state before the next example
\* is taken up.
Flagged == IF "flagged" \in DOMAIN state THEN state["flagged"] ELSE {}

C3ExhaustedIsFlagged ==
    \A e \in Examples : (Exhausted(e) /\ max_refine_iters > 0) => e \in Flagged

\* C4: every attempt that notified refinement_start and is over has exactly
\* one refinement_end notification, whether accepted or rejected.
AttemptOver(e, a) == e < i \/ (e = i /\ a <= refine_iter)

C4RefinementEndFollows ==
    \A cb \in CallbackIds :
        LET H == HooksOf(cb)
        IN  \A k \in DOMAIN H :
                (H[k].event = "refinement_start"
                    /\ AttemptOver(H[k].state["example_id"],
                                   H[k].state["refinement_attempt"]))
                =>
                Cardinality({m \in DOMAIN H :
                                /\ m > k
                                /\ H[m].event = "refinement_end"
                                /\ OfAttempt(H[m], H[k].state["example_id"],
                                             H[k].state["refinement_attempt"])}) = 1

\* C5: in a run that completed normally every callback got run_start once and
\* first, run_end once and last; each refinement_start is followed directly by
\* validation_start, validation_end and one of merge_success / merge_failure of
\* the same attempt, none of these occurs elsewhere, and merge_success is the
\* one exactly when the validation strategy reported the candidate valid.
EventCount(H, event) == Cardinality({k \in DOMAIN H : H[k].event = event})

AttemptHooks == {"validation_start", "validation_end", "merge_success", "merge_failure"}

HookBefore(event) ==
    CASE event = "validation_start" -> {"refinement_start"}
      [] event = "validation_end" -> {"validation_start"}
      [] event \in {"merge_success", "merge_failure"} -> {"validation_end"}

\* the validator reported valid in attempt a of example e
ValidatedIn(e, a) ==
    \E m \in CallsOf("validator", e) :
        calls[m].attempt = a /\ ReportedValid(calls[m].res)

C5HookOrder ==
    pc = "done" =>
        \A cb \in CallbackIds :
            LET H == HooksOf(cb)
            IN  /\ Len(H) >= 2
                /\ H[1].event = "run_start"
                /\ H[Len(H)].event = "run_end"
                /\ EventCount(H, "run_start") = 1
                /\ EventCount(H, "run_end") = 1
                /\ \A k \in DOMAIN H :
                    /\ H[k].event = "refinement_start" =>
                        LET e == H[k].state["example_id"]
                            a == H[k].state["refinement_attempt"]
                        IN  /\ k + 3 <= Len(H)
                            /\ H[k + 1].event = "validation_start"
                            /\ H[k + 2].event = "validation_end"
                            /\ H[k + 3].event \in {"merge_success", "merge_failure"}
                            /\ \A d \in 1..3 : OfAttempt(H[k + d], e, a)
                            /\ H[k + 3].event = "merge_success" <=> ValidatedIn(e, a)
                    /\ H[k].event \in AttemptHooks =>
                        k > 1 /\ H[k - 1].event \in HookBefore(H[k].event)

C5Witness ==
    /\ pc = "done"
    /\ callbacks # << >>
    /\ EventCount(hooks, "merge_success") >= 1
    /\ EventCount(hooks, "merge_failure") >= 1

\* C6: after a candidate was reported valid for example i no further call is
\* made for example i; the initial evaluations are made in dataset order, one
\* per example, each with the prompt accepted at that moment, which is the
\* most recently validated candidate (or the initial prompt when there is none).
EvaluatorCalls == SelectSeq(calls, LAMBDA c : c.fn = "evaluator")

ValidBefore(k) ==
    {m \in 1..(k - 1) : calls[m].fn = "validator" /\ ReportedValid(calls[m].res)}

AcceptedBefore(k) ==
    IF ValidBefore(k) = {} THEN InitialPrompt
    ELSE calls[CHOOSE m \in ValidBefore(k) : \A n \in ValidBefore(k) : n <= m].arg

C6AcceptEndsExample ==
    /\ \A k \in DOMAIN calls :
        (calls[k].fn = "validator" /\ ReportedValid(calls[k].res)) =>
            \A m \in DOMAIN calls : m > k => calls[m].example # calls[k].example
    /\ \A n \in DOMAIN EvaluatorCalls : EvaluatorCalls[n].example = n - 1
    /\ pc = "done" => Len(EvaluatorCalls) = Len(dataset)
    /\ \A k \in DOMAIN calls :
        calls[k].fn = "evaluator" => calls[k].arg = AcceptedBefore(k)

C6Witness ==
    /\ pc = "done"
    /\ Len(dataset) >= 2
    /\ Accepted(0)
    /\ \E k \in CallsOf("evaluator", 1) : calls[k].arg # InitialPrompt

\* C7: the history handed to the Refiner at attempt k of an example has k-1
\* entries, the j-th describing the patch rejected in attempt j of that same
\* example (so it is empty at the first attempt of every example).
Describes(entry, p) ==
    /\ entry[4] = OperationValue(p.operation)
    /\ entry[6] = p.target_block
    /\ entry[8] = p.content

C7HistoryPerExample ==
    \A k \in DOMAIN calls :
        calls[k].fn = "refiner" =>
            LET c == calls[k]
                h == c.arg.history
            IN  /\ Len(h) = c.attempt - 1
                /\ \A j \in DOMAIN h :
                    /\ ~ValidatedIn(c.example, j)
                    /\ \E m \in CallsOf("merger", c.example) :
                        /\ m < k
                        /\ calls[m].attempt = j
                        /\ Describes(h[j], calls[m].arg.patch)

C7Witness ==
    /\ Exhausted(0)
    /\ max_refine_iters >= 2
    /\ \E k \in CallsOf("refiner", 1) :
        /\ calls[k].attempt = 2
        /\ \E m \in CallsOf("refiner", 1) : calls[m].attempt = 1 /\ calls[m].arg.history = << >>

\* C8: a step that follows a validation reporting invalid leaves the accepted
\* prompt unchanged, and after an example exhausted its retry budget the
\* accepted prompt is the prompt that example's initial evaluation was made with.
PromptAfter(e) ==
    IF CallsOf("evaluator", e + 1) # {}
    THEN calls[CHOOSE k \in CallsOf("evaluator", e + 1) : TRUE].arg
    ELSE prompt

C8ExhaustedKeepsPrompt ==
    \A e \in Examples :
        Exhausted(e) => \A k \in CallsOf("evaluator", e) : PromptAfter(e) = calls[k].arg

C8RejectStep ==
    (pc = "decide" /\ ~ReportedValid(calls[Len(calls)].res)) => prompt' = prompt

C8RejectedLeavesPrompt == [](C8ExhaustedKeepsPrompt) /\ [][C8RejectStep]_vars

C8Witness ==
    /\ prompt # InitialPrompt
    /\ max_refine_iters >= 1
    /\ \E e \in Examples : e >= 1 /\ Exhausted(e) /\ Accepted(e - 1)

\* C9: an operation value of the Refiner that is neither 'append' nor
\* 'replace' makes a failed attempt: the run is not aborted, the failure is
\* added to the example's history and the accepted prompt is unchanged.
MalformedOutput(k) ==
    calls[k].fn = "refiner" /\ calls[k].res.operation \notin PatchOperationValues

C9MalformedIsFailedAttempt ==
    \A k \in DOMAIN calls :
        MalformedOutput(k) =>
            /\ pc # "raised"
            /\ k = Len(calls) =>
                /\ Len(history) = Len(calls[k].arg.history) + 1
                /\ prompt = calls[k].arg.prompt

\* C10: a merger that raises block-not-found for the patch of an attempt does
\* not abort the run.
MergerRaised(k) ==
    /\ calls[k].fn = "merger"
    /\ ~BlockFound(calls[k].arg.prompt, calls[k].arg.patch.target_block)

C10MergerFailureDoesNotAbort ==
    \A k \in DOMAIN calls : MergerRaised(k) => pc # "raised"

\* ------------------------------------------------------------------ C11
\* the run was ended by a registry lookup of the constructor
ConstructionFailed == pc = "raised" /\ error[1] = "KeyError"

\* the run was ended by the scorer lookup of optimize
ScorerNotFound ==
    pc = "raised" /\ error[1] = "ValueError" /\ error[2] = "Scorer '"

\* nothing of the run has happened: no Evaluator, Refiner, merger or validator
\* call, no hook, and the prompt is the one the optimizer was built with
NoWorkDone ==
    /\ calls = << >>
    /\ hooks = << >>
    /\ state = << >>
    /\ prompt = InitialPrompt
    /\ returned = None

\* C11: an unknown merger or validator name makes the construction fail, so an
\* optimizer that exists holds a registered validator; an unknown scorer name
\* makes optimize raise ValueError "Scorer '<name>' not found in registry."
\* before any Evaluator call and any hook, run_start included, with the prompt
\* unchanged.
C11UnknownNameRejectedFirst ==
    /\ pc \notin {"new", "raised"} => validator \in ValidatorsRegistry
    /\ ConstructionFailed =>
        /\ validator = "None"
        /\ NoWorkDone
        /\ \/ error[5] = "mergers" /\ error[3] \notin MergersRegistry
           \/ error[5] = "validators" /\ error[3] \notin ValidatorsRegistry
    /\ ScorerNotFound =>
        /\ NoWorkDone
        /\ error[3] \notin ScorersRegistry
        /\ error = <<"ValueError", "Scorer '", error[3], "' not found in registry.">>

C11Witness ==
    /\ ScorerNotFound
    /\ Len(callbacks) > 0
    /\ Len(dataset) > 0
    /\ validator \in ValidatorsRegistry

\* ------------------------------------------------------------------ C12
\* the hook call logged at position k raised
Raised(k) == [cb |-> hooks[k].cb, event |-> hooks[k].event] \in faulty

\* the events whose hooks run before the verdict on a candidate is acted on
BeforeCommit ==
    {"run_start", "refinement_start", "validation_start", "validation_end"}

\* C12: at every event the callbacks are called in list order, each one right
\* after its predecessor with the same event and state; a hook that raises is
\* the last hook call of the run, optimize ends with that hook's exception and
\* returns nothing, and when the event is validation_end or earlier the
\* candidate of the attempt is not committed.
C12HookExceptionPropagates ==
    \A k \in DOMAIN hooks :
        LET h == hooks[k]
        IN  /\ h.cb > 1 =>
                hooks[k - 1] = [cb |-> h.cb - 1, event |-> h.event, state |-> h.state]
            /\ (h.cb < Len(callbacks) /\ ~Raised(k)) =>
                /\ k < Len(hooks)
                /\ hooks[k + 1] = [cb |-> h.cb + 1, event |-> h.event, state |-> h.state]
            /\ Raised(k) =>
                /\ k = Len(hooks)
                /\ pc = "raised"
                /\ error = <<"HookError", h.cb, h.event>>
                /\ returned = None
                /\ h.event \in BeforeCommit =>
                    /\ prompt = InitialPrompt
                    /\ h.state["prompt"] = InitialPrompt

\* the first of two callbacks raises in validation_end, with a candidate at
\* hand that differs from the prompt
C12Witness ==
    /\ pc = "raised"
    /\ error = <<"HookError", 1, "validation_end">>
    /\ Len(callbacks) > 1
    /\ candidate_prompt # None
    /\ candidate_prompt # prompt
    /\ is_valid

\* ------------------------------------------------- observations on a merge
\* s.split("\n")
RECURSIVE Lines(_)
Lines(s) ==
    IF \A q \in DOMAIN s : s[q] # NL THEN <<s>>
    ELSE LET q == SetMin({r \in DOMAIN s : s[r] = NL})
         IN  <<SubSeq(s, 1, q - 1)>> \o Lines(SubSeq(s, q + 1, Len(s)))

\* position of the first character of line k
RECURSIVE LinePos(_, _)
LinePos(lines, k) ==
    IF k = 1 THEN 0 ELSE LinePos(lines, k - 1) + Len(lines[k - 1]) + 1

\* the lines equal to the target block
ExactLines(base_prompt, target_block) ==
    {k \in DOMAIN Lines(base_prompt) : Lines(base_prompt)[k] = target_block}

MergerReturned == merging.pc = "returned"

MergerRaisedNotFound == merging.pc = "raised"

\* line k is matched by next_block_regex
IsHeaderAt(lines, k) ==
    /\ Len(lines[k]) >= 3
    /\ SubSeq(lines[k], 1, 3) = <<"#", "#", "#">>
    /\ IF Len(lines[k]) = 3 THEN k < Len(lines) ELSE lines[k][4] \in Whitespace

\* the header line of the target block: the first line equal to target_block
TargetLine(base_prompt, target_block) ==
    SetMin(ExactLines(base_prompt, target_block))

\* the line of the next block header after line h, or one past the last line
NextHeaderLine(lines, h) ==
    LET later == {k \in (h + 1)..Len(lines) : IsHeaderAt(lines, k)}
    IN  IF later = {} THEN Len(lines) + 1 ELSE SetMin(later)

NotBlank(line) == line # << >>

\* the lines without the whitespace around them and without the blank ones
Norm(lines) == SelectSeq([k \in DOMAIN lines |-> Strip(lines[k])], NotBlank)

\* the merge of a patch whose target block exists has returned
Merged(operation) ==
    /\ MergerReturned
    /\ merging.patch.operation = operation
    /\ ExactLines(merging.base_prompt, merging.patch.target_block) # {}

\* ------------------------------------------------------------------ C13
\* C13: the merger succeeds only when a line of base_prompt equals
\* target_block, and then the first such line is the header it works on; for
\* any other target_block, one that is only a prefix of a line included, it
\* raises the block-not-found error naming the block and returns no prompt.
C13ExactHeaderOrNotFound ==
    LET lines == Lines(merging.base_prompt)
        exact == ExactLines(merging.base_prompt, merging.patch.target_block)
    IN  /\ MergerReturned =>
            /\ exact # {}
            /\ merging.header = LinePos(lines, SetMin(exact))
        /\ MergerRaisedNotFound =>
            /\ exact = {}
            /\ merging.error = BlockNotFound(merging.patch.target_block)
            /\ merging.result = None

\* ------------------------------------------------------------------ C14
\* C14: after an APPEND to an existing block the prompt reads, blank lines and
\* the whitespace around lines aside: everything up to the end of the target
\* block's body, then the content, then the next block header and all that
\* follows it; so the target keeps its body lines, the content comes after
\* them and before the next block (or ends the prompt), and the other blocks
\* are kept in order.
C14AppendAfterBody ==
    Merged("APPEND") =>
        LET lines == Lines(merging.base_prompt)
            h == TargetLine(merging.base_prompt, merging.patch.target_block)
            next == NextHeaderLine(lines, h)
        IN  Norm(Lines(merging.result)) =
                Norm(SubSeq(lines, 1, next - 1))
                    \o Norm(Lines(merging.patch.content))
                    \o Norm(SubSeq(lines, next, Len(lines)))

\* ------------------------------------------------------------------ C15
\* C15: after a REPLACE of an existing block the prompt reads, blank lines and
\* the whitespace around lines aside: everything up to and including the
\* target header, then the content, then the next block header and all that
\* follows it; so the old body is gone, the content stands between the header
\* and the next block, and the other blocks are kept in order.
C15ReplaceBody ==
    Merged("REPLACE") =>
        LET lines == Lines(merging.base_prompt)
            h == TargetLine(merging.base_prompt, merging.patch.target_block)
            next == NextHeaderLine(lines, h)
        IN  Norm(Lines(merging.result)) =
                Norm(SubSeq(lines, 1, h))
                    \o Norm(Lines(merging.patch.content))
                    \o Norm(SubSeq(lines, next, Len(lines)))

\* ------------------------------------------------------------------ C16
\* the body of the target block: its lines after the header, joined
BodyOf(base_prompt, target_block) ==
    LET lines == Lines(base_prompt)
        h == TargetLine(base_prompt, target_block)
    IN  Join(SubSeq(lines, h + 1, NextHeaderLine(lines, h) - 1))

\* C16: a REPLACE of a block by its own body returns the original prompt,
\* whitespace at both ends trimmed.
C16ReplaceByOwnBodyIsIdentity ==
    (/\ Merged("REPLACE")
     /\ IsHeaderAt(Lines(merging.base_prompt),
                   TargetLine(merging.base_prompt, merging.patch.target_block))
     /\ merging.patch.content =
            BodyOf(merging.base_prompt, merging.patch.target_block))
    => merging.result = Strip(merging.base_prompt)

\* -------------------------------------------- observations on a validation
\* forward of the strategy has returned
Returned(strategy) ==
    validation.pc = "returned" /\ validation.strategy = strategy

\* positions of sq holding an example that fails under the candidate prompt
FailingIn(sq) == {k \in DOMAIN sq : sq[k] \notin validation.passes}

\* the Evaluator was called for the first examples of sq, in order, up to and
\* including the first failing one, or for all when none fails
StopsAtFirstFailure(sq) ==
    /\ Len(validation.evaluated) =
            IF FailingIn(sq) = {} THEN Len(sq) ELSE SetMin(FailingIn(sq))
    /\ validation.evaluated = SubSeq(sq, 1, Len(validation.evaluated))

\* sq holds examples of the dataset, none twice
DistinctExamples(sq) ==
    /\ \A k \in DOMAIN sq : \E d \in DOMAIN validation.dataset : validation.dataset[d] = sq[k]
    /\ \A a, b \in DOMAIN sq : a # b => sq[a] # sq[b]

\* ------------------------------------------------------------------ C17
\* C17: the full strategy returns True exactly when every dataset example
\* passes under the candidate prompt; it goes through the dataset in order and
\* stops at the first failing example, so the Evaluator calls number the
\* position of the first failing example, or the dataset size when none fails.
C17FullAllPassFailFast ==
    Returned("full") =>
        /\ validation.result = Bool(FailingIn(validation.dataset) = {})
        /\ StopsAtFirstFailure(validation.dataset)

\* the second of three examples fails
C17Witness ==
    /\ Returned("full")
    /\ Len(validation.dataset) = 3
    /\ validation.evaluated = <<1, 2>>
    /\ validation.result = Bool(FALSE)

\* ------------------------------------------------------------------ C18
\* C18: the batched strategy draws min(batch_size, |dataset|) dataset examples,
\* none twice, returns True exactly when every drawn example passes, stops at
\* the first failing drawn example, evaluates nothing outside the batch and
\* makes at most min(batch_size, |dataset|) Evaluator calls.
C18BatchedDrawsAndFailsFast ==
    Returned("batched") =>
        LET m == Min(validation.size, Len(validation.dataset))
        IN  /\ Len(validation.batch) = m
            /\ DistinctExamples(validation.batch)
            /\ validation.result = Bool(FailingIn(validation.batch) = {})
            /\ StopsAtFirstFailure(validation.batch)
            /\ Len(validation.evaluated) <= m

\* a batch of two out of three that is no prefix of the dataset and whose
\* first example fails, while an example left out passes
C18Witness ==
    /\ Returned("batched")
    /\ Len(validation.dataset) = 3
    /\ validation.batch = <<3, 1>>
    /\ validation.evaluated = <<3>>
    /\ 2 \in validation.passes
    /\ validation.result = Bool(FALSE)

\* ------------------------------------------------------------------ C19
\* the score of the result as a fraction
ScoreOf(result) == result.items["score"]

\* C19: the sample strategy evaluates min(sample_size, |dataset|) distinct
\* examples, the whole dataset when it is smaller than sample_size, each once
\* and without stopping at a failure; it returns {is_valid, score}, the score
\* being the number of sampled examples that pass over the sample size,
\* between 0 and 1, and is_valid holding exactly when score >= threshold.
C19SampleScoreAndThreshold ==
    Returned("sample") =>
        LET m == Min(validation.size, Len(validation.dataset))
            score == ScoreOf(validation.result)
        IN  /\ Len(validation.batch) = m
            /\ DistinctExamples(validation.batch)
            /\ Len(validation.dataset) < validation.size =>
                    validation.batch = validation.dataset
            /\ validation.evaluated = validation.batch
            /\ validation.result.kind = "dict"
            /\ m > 0 => score = <<m - Cardinality(FailingIn(validation.batch)), m>>
            /\ 0 <= score[1] /\ score[1] <= score[2] /\ score[2] > 0
            /\ validation.result.items["is_valid"] =
                    (score[1] * validation.threshold[2]
                        >= validation.threshold[1] * score[2])

\* the first of two sampled examples fails, the second passes, and half is
\* what the threshold asks for
C19Witness ==
    /\ Returned("sample")
    /\ validation.threshold = <<1, 2>>
    /\ Len(validation.batch) = 2
    /\ validation.batch[1] \notin validation.passes
    /\ validation.batch[2] \in validation.passes
    /\ ScoreOf(validation.result) = <<1, 2>>
    /\ validation.result.items["is_valid"]

\* ------------------------------------------------------------------ C20
\* C20: the single example strategy makes one Evaluator call, for the example
\* of the context, and returns the scorer's verdict on it, whatever the
\* dataset holds; without 'example' in the context it raises ValueError and
\* the Evaluator is not called.
C20SingleExampleOnly ==
    /\ Returned("single_example") =>
        /\ validation.example # NoExample
        /\ validation.evaluated = <<validation.example>>
        /\ validation.result = Bool(validation.example \in validation.passes)
    /\ (validation.pc = "raised") =>
        /\ validation.strategy = "single_example"
        /\ validation.example = NoExample
        /\ validation.evaluated = << >>
        /\ validation.result = None
        /\ validation.error[1] = "ValueError"
    /\ (/\ validation.pc \notin {"idle", "forward"}
        /\ validation.strategy = "single_example"
        /\ validation.example = NoExample) => validation.pc = "raised"

\* the example passes and is not in the dataset, whose examples all fail
C20Witness ==
    /\ Returned("single_example")
    /\ Len(validation.dataset) = 2
    /\ validation.example = 3
    /\ validation.passes = {3}
    /\ validation.result = Bool(TRUE)

\* ------------------------------------------------------------------ C21
\* the result reports acceptance: True, or is_valid True with score 1.0
Accepts(result) ==
    \/ result.kind = "bool" /\ result.value = TRUE
    \/ /\ result.kind = "dict"
       /\ result.items["is_valid"] = TRUE
       /\ result.items["score"] = <<1, 1>>

\* the call of forward is over
ForwardOver == validation.pc \in {"returned", "raised"}

\* C21: a validation strategy called with an empty dataset returns, and its
\* result reports acceptance, whichever strategy it is.
C21EmptyDatasetAccepted ==
    (ForwardOver /\ Len(validation.dataset) = 0) =>
        /\ validation.pc = "returned"
        /\ Accepts(validation.result)

\* ------------------------------------------------------------------ C22
\* C22: whatever the interleaving of the calls of forward, the model is
\* invoked once per call at most, with the instructions of that call's prompt
\* and that call's inputs, a call that has returned has the prediction for its
\* own prompt and inputs, and the signature stored in the Evaluator is the one
\* it was built with.
C22CallsDoNotInterfere ==
    evaluating.pc = "running" =>
        /\ evaluating.base_signature = BaseSignature
        /\ \A k \in DOMAIN evaluating.invocations :
            LET inv == evaluating.invocations[k]
            IN  /\ inv.instructions = evaluating.calls[inv.call].prompt
                /\ inv.kwargs = evaluating.calls[inv.call].kwargs
                /\ \A m \in DOMAIN evaluating.invocations :
                    evaluating.invocations[m].call = inv.call => m = k
        /\ \A c \in DOMAIN evaluating.calls :
            evaluating.calls[c].pc = "returned" =>
                evaluating.calls[c].result =
                    Prediction(evaluating.calls[c].prompt, evaluating.calls[c].kwargs)

\* two calls with different prompts: the second signs before the first does,
\* and the first is invoked and returns between the signing and the
\* invocation of the second
C22Witness ==
    /\ evaluating.pc = "running"
    /\ Len(evaluating.calls) = 2
    /\ evaluating.calls[1].prompt # evaluating.calls[2].prompt
    /\ evaluating.calls[1].pc = "returned"
    /\ evaluating.calls[2].pc = "ready"

\* ------------------------------------------------ observations on a Registry
\* the operations before the k-th that registered the name without raising
RegisteredBefore(k, name) ==
    {m \in 1..(k - 1) :
        /\ reg.log[m].op = "register"
        /\ reg.log[m].name = name
        /\ reg.log[m].error = NoError}

\* the class of the first registration of the name before the k-th operation
FirstClassBefore(k, name) ==
    reg.log[SetMin(RegisteredBefore(k, name))].cls

\* ------------------------------------------------------------------ C23
\* C23: after any sequence of operations the bindings are those of the first
\* registration of each name that was registered; a register of a name
\* registered before raises the duplicate ValueError and binds nothing, any
\* other register succeeds; a get of a registered name returns the class of
\* its first registration.
C23FirstRegistrationStays ==
    reg.pc = "ready" =>
        LET n == Len(reg.log) + 1
        IN  /\ DOMAIN reg.bindings = {name \in Names : RegisteredBefore(n, name) # {}}
            /\ \A name \in DOMAIN reg.bindings :
                reg.bindings[name] = FirstClassBefore(n, name)
            /\ \A k \in DOMAIN reg.log :
                LET o == reg.log[k]
                IN  /\ o.op = "register" =>
                        IF RegisteredBefore(k, o.name) # {}
                        THEN o.error = AlreadyRegistered(o.name, RegistryName)
                        ELSE o.error = NoError
                    /\ (o.op = "get" /\ RegisteredBefore(k, o.name) # {}) =>
                        o.returned = FirstClassBefore(k, o.name)

\* a name registered, registered again with another class, then looked up
C23Witness ==
    /\ reg.pc = "ready"
    /\ Len(reg.log) = 3
    /\ reg.log[1].op = "register" /\ reg.log[1].cls = "FirstClass"
    /\ reg.log[2].op = "register" /\ reg.log[2].cls = "SecondClass"
    /\ reg.log[2].name = reg.log[1].name
    /\ reg.log[2].error[1] = "ValueError"
    /\ reg.log[3].op = "get" /\ reg.log[3].name = reg.log[1].name
    /\ reg.log[3].returned = "FirstClass"

\* ------------------------------------------------------------------ C24
\* a get is the operation last made
GetStep ==
    /\ reg.pc = "ready"
    /\ Len(reg'.log) = Len(reg.log) + 1
    /\ reg'.log[Len(reg'.log)].op = "get"

\* every get so far of a name not registered raised KeyError with the name
\* asked for and the registry's name in its message, and no other get raised
C24GetOutcomes ==
    reg.pc = "ready" =>
        \A k \in DOMAIN reg.log :
            LET o == reg.log[k]
            IN  o.op = "get" =>
                    IF RegisteredBefore(k, o.name) = {}
                    THEN /\ o.error =
                            <<"KeyError", "'", o.name, "' not found in '",
                              RegistryName, "' registry.">>
                         /\ o.returned = "None"
                    ELSE o.error = NoError

\* C24: get of a name never registered raises KeyError naming the name and
\* the registry, get of a registered name does not raise, and a get leaves
\* the bindings as they were.
C24GetNotFound ==
    /\ [](C24GetOutcomes)
    /\ [][GetStep => reg'.bindings = reg.bindings]_vars

\* a get that raised although another name is registered
C24Witness ==
    /\ reg.pc = "ready"
    /\ Len(reg.log) = 2
    /\ reg.log[1].op = "register" /\ reg.log[1].name = "FirstName"
    /\ reg.log[2].op = "get" /\ reg.log[2].name = "SecondName"
    /\ reg.log[2].error[1] = "KeyError"
    /\ DOMAIN reg.bindings = {"FirstName"}

\* ------------------------------------------------------------------ C25
\* the fewest and the most Evaluator calls the run can have made for the
\* calls logged: one for each initial evaluation, and for each validation
\* what the strategy makes
RECURSIVE EvaluatorCallsMade(_, _)
EvaluatorCallsMade(log, most) ==
    IF log = << >> THEN 0
    ELSE LET c == log[Len(log)]
             rest == EvaluatorCallsMade(SubSeq(log, 1, Len(log) - 1), most)
             made == ValidatorEvaluations(validator, c.res, Len(dataset))
         IN  IF c.fn = "evaluator" THEN rest + 1
             ELSE IF c.fn = "validator"
             THEN rest + (CHOOSE m \in made :
                            \A o \in made : IF most THEN o <= m ELSE m <= o)
             ELSE rest

\* the hook calls of the step
Notified == (Len(hooks) + 1)..Len(hooks')

\* C25: at every hook call state['total_evaluations'] is the number of
\* Evaluator calls made so far in the run, those of the initial evaluations
\* and those made inside the validation strategy.
C25TotalEvaluationsCountsEvaluatorCalls ==
    [][\A k \in Notified :
        /\ hooks'[k].state["total_evaluations"] = EvaluatorCallsMade(calls', FALSE)
        /\ hooks'[k].state["total_evaluations"] = EvaluatorCallsMade(calls', TRUE)]_vars

\* ------------------------------------------------------------------ C26
\* optimize has returned: what it returned is the accepted prompt, and the
\* run_end hooks, the last ones called, saw it as state['prompt']
C26ReturnsAcceptedPrompt ==
    pc = "done" =>
        /\ returned = prompt
        /\ \A n \in DOMAIN callbacks :
            LET h == hooks[Len(hooks) - Len(callbacks) + n]
            IN  h.event = "run_end" /\ h.state["prompt"] = returned

\* C26: optimize returns the final accepted prompt, the state['prompt'] that
\* on_run_end sees, and at every hook call state['prompt'] is the prompt
\* accepted at that moment.
C26StatePromptIsAccepted ==
    /\ [](C26ReturnsAcceptedPrompt)
    /\ [][\A k \in Notified : hooks'[k].state["prompt"] = prompt']_vars

\* a run that accepted a candidate and rejected another has returned
C26Witness ==
    /\ pc = "done"
    /\ callbacks # << >>
    /\ returned # InitialPrompt
    /\ \E k \in DOMAIN hooks : hooks[k].event = "merge_failure"
    /\ \E k \in DOMAIN hooks :
        hooks[k].event = "merge_success" /\ hooks[k].state["prompt"] = returned

\* ------------------------------------------------------------------ C27
\* the k-th entry of the log is the k-th hook call: its event name and
\* every key of the state of that call with its value, and nothing else
EntryOfCall(k) ==
    LET entry == logging.history[k]
        call == logging.calls[k]
    IN  /\ DOMAIN entry = {"event"} \cup DOMAIN call.state
        /\ entry["event"] = call.hook
        /\ \A key \in DOMAIN call.state : entry[key] = call.state[key]

\* a hook call on the HistoryCallback
HookStep == logging.pc = "ready" /\ logging'.calls # logging.calls

\* C27: HistoryCallback's log starts empty and is as long as the number of
\* hook calls made; each hook call appends exactly one entry, after the
\* earlier ones, holding the event name of the hook and every key of the
\* state with its value.
C27LogFollowsHookCalls ==
    /\ InitHistory => logging.history = << >>
    /\ [](logging.pc = "ready" =>
            /\ Len(logging.history) = Len(logging.calls)
            /\ \A k \in DOMAIN logging.history : EntryOfCall(k))
    /\ [][HookStep =>
            /\ Len(logging'.history) = Len(logging.history) + 1
            /\ SubSeq(logging'.history, 1, Len(logging.history)) = logging.history]_vars

\* two hook calls with different states have been logged
C27Witness ==
    /\ logging.pc = "ready"
    /\ Len(logging.history) = 2
    /\ logging.history[1]["event"] = "run_start"
    /\ logging.history[2]["event"] = "merge_success"
    /\ "is_valid" \in DOMAIN logging.history[2]
    /\ "is_valid" \notin DOMAIN logging.history[1]

\* ------------------------------------------------------------------ C28
\* the verdict for the i-th pair of the dataset: whether the amount the
\* extractor answered for its file is close to its gold amount
VerdictOf(n) ==
    numbers_are_close(pool.invoked[n].amount, pool.dataset[n].gold, AmountTol)

\* C28: _evaluate on a pool of parallel_workers threads, whatever the order
\* the threads ran in: the i-th result is the verdict for the i-th pair of
\* the dataset, the accuracy returned is the number of correct pairs over
\* the size of the dataset, and every invocation of the extractor was made
\* under the prompt being evaluated.
C28EvaluateInDatasetOrder ==
    /\ pool.pc \in {"running", "returned"} =>
        \A n \in DOMAIN pool.invoked :
            /\ pool.invoked[n].instructions = pool.prompt
            /\ pool.invoked[n].file = pool.dataset[n].file
    /\ pool.pc = "returned" =>
        /\ DOMAIN pool.results = DOMAIN pool.dataset
        /\ \A n \in DOMAIN pool.dataset : pool.results[n] = VerdictOf(n)
        /\ pool.returned =
            << Cardinality({n \in DOMAIN pool.dataset : VerdictOf(n)}),
               Len(pool.dataset) >>

\* two threads finished the second pair before the first one, with
\* different verdicts
C28Witness ==
    /\ pool.pc = "returned"
    /\ pool.parallel_workers = 2
    /\ pool.completed = <<2, 1>>
    /\ pool.results = <<TRUE, FALSE>>
    /\ pool.returned = <<1, 2>>

\* ------------------------------------------------------------------ C29
\* the arguments the claim calls invalid
InvalidArguments ==
    IF constructing.cls = "batched"
    THEN constructing.batch_size <= 0
    ELSE \/ constructing.sample_size <= 0
         \/ constructing.threshold[1] < 0
         \/ constructing.threshold[1] > constructing.threshold[2]

\* C29: the batched strategy raises at construction for batch_size <= 0,
\* the sample strategy for sample_size <= 0 and for a threshold outside
\* [0.0, 1.0]; every other value constructs a strategy that holds the
\* values given; no validation call is made with invalid parameters.
C29InvalidParametersRaiseAtConstruction ==
    /\ constructing.pc = "raised" =>
        /\ InvalidArguments
        /\ constructing.error.type = "ValueError"
        /\ constructing.calls = 0
    /\ constructing.pc = "constructed" =>
        /\ ~InvalidArguments
        /\ constructing.cls = "batched" =>
            constructing.self.batch_size = constructing.batch_size
        /\ constructing.cls = "sample" =>
            /\ constructing.self.sample_size = constructing.sample_size
            /\ constructing.self.threshold = constructing.threshold

\* a sample strategy refused for its threshold alone
C29Witness ==
    /\ constructing.pc = "raised"
    /\ constructing.cls = "sample"
    /\ constructing.sample_size > 0
    /\ constructing.threshold = <<11, 10>>

\* ------------------------------------------------------------------ C30
\* the positions of the example's fields that are not inputs
NonInputPositions ==
    {k \in DOMAIN scoring.example.keys :
        scoring.example.keys[k] \notin scoring.example.input_keys}

\* the example has an output field, the first of them is a field of the
\* prediction too, and the two values have the same string form
FirstOutputFieldMatches ==
    \E k \in NonInputPositions :
        /\ \A m \in NonInputPositions : k <= m
        /\ LET key == scoring.example.keys[k]
           IN  /\ key \in DOMAIN scoring.prediction
               /\ Str(scoring.example.store[key]) = Str(scoring.prediction[key])

\* C30: exact_match_scorer returns True exactly when the string form of the
\* example's first non-input field equals that of the field of the same name
\* of the prediction, whatever the other output fields hold; it returns
\* False, raising nothing, when the example has no output field or the
\* prediction has not got that field.
C30ExactMatchOfFirstOutputField ==
    scoring.pc = "returned" =>
        /\ scoring.returned \in BOOLEAN
        /\ scoring.returned = FirstOutputFieldMatches

\* an int and a text with the same string form match, while the other
\* output field differs
C30Witness ==
    /\ scoring.pc = "returned"
    /\ scoring.returned = TRUE
    /\ scoring.example.keys = <<"input", "output", "other_field">>
    /\ scoring.example.store["output"] = IntValue(12)
    /\ "other_field" \in DOMAIN scoring.prediction
    /\ "output" \in DOMAIN scoring.prediction
    /\ scoring.prediction["output"] = TextValue(<<"1", "2">>)
    /\ scoring.prediction["other_field"] # scoring.example.store["other_field"]

\* ------------------------------------------------------------------ C31
\* the text predicted for the output field, << >> when there is none
PredictedText ==
    IF "output" \in DOMAIN scoring.prediction
    THEN scoring.prediction["output"].s ELSE << >>

\* the gold value is 1234.56, as a float or as a text
GoldIs123456 ==
    scoring.example.store["output"] \in
        {FloatValue(123456), TextValue(<<"1", "2", "3", "4", ".", "5", "6">>)}

\* C31: numeric_scorer has returned: against gold 1234.56 it accepted
\* '1,234.56' (thousands comma) and '1234,56' (decimal comma), it rejected
\* 1234.57, which differs by more than the tolerance, and a text that is no
\* number gave False.
C31SeparatorsNormalized ==
    scoring.pc = "returned" =>
        /\ GoldIs123456 =>
            /\ PredictedText = <<"1", ",", "2", "3", "4", ".", "5", "6">>
                => scoring.returned = TRUE
            /\ PredictedText = <<"1", "2", "3", "4", ",", "5", "6">>
                => scoring.returned = TRUE
            /\ PredictedText = <<"1", "2", "3", "4", ".", "5", "7">>
                => scoring.returned = FALSE
        /\ PredictedText \in {<<"N", "/", "A">>, <<"1", ".", "2", ".", "3">>, << >>}
            => scoring.returned = FALSE

\* ------------------------------------------------------------------ C32
\* what get(name) gives on registry q: the class, or "KeyError"; register
\* of the name succeeds on q exactly when get gives "KeyError"
Lookup(registries, q, name) ==
    IF name \in DOMAIN registries[q] THEN registries[q][name] ELSE "KeyError"

\* a registration that succeeded
RegisterStep ==
    /\ reg.pc = "ready"
    /\ reg'.registries # reg.registries
    /\ reg'.last.op = "register"

\* C32: a registration in one of mergers, validators, scorers leaves, for
\* the same name and every other, the outcome of get and of register in the
\* other two registries as it was.
C32RegistriesIndependent ==
    [][RegisterStep =>
        \A q \in DOMAIN BuiltIns \ {reg'.last.registry} :
            \A name \in UserNames \cup StrategyArgs :
                Lookup(reg'.registries, q, name) = Lookup(reg.registries, q, name)]_vars

\* "full" has just been registered in mergers, where it was free; it is
\* the built-in class in validators and still free in scorers
C32Witness ==
    /\ reg.pc = "ready"
    /\ reg.last = LastOp("register", "mergers", "full", "UserClass", NoError)
    /\ reg.registries["mergers"]["full"] = "UserClass"
    /\ reg.registries["validators"]["full"] = "FullValidationStrategy"
    /\ "full" \notin DOMAIN reg.registries["scorers"]

\* ------------------------------------------------------------------ C35
\* C35: a PromptOptimizer constructed with full, batched, sample,
\* single_example or none as validation_strategy is constructed: the name
\* was registered in validators by then.
C35FiveValidatorsRegistered ==
    /\ reg.pc = "ready"
    /\ reg.last.op = "construct"
    /\ reg.last.name \in {"full", "batched", "sample", "single_example", "none"}
    => /\ reg.last.error = NoError
       /\ reg.last.returned = reg.registries["validators"][reg.last.name]

\* ------------------------------------------------------------------ C33
\* the lines that block_start_regex matches: those that start with the target
MatchingLines(base_prompt, target_block) ==
    {k \in DOMAIN Lines(base_prompt) :
        /\ Len(Lines(base_prompt)[k]) >= Len(target_block)
        /\ SubSeq(Lines(base_prompt)[k], 1, Len(target_block)) = target_block}

\* the matching lines after the first one that are block headers
LaterMatchingHeaders ==
    LET matching == MatchingLines(merging.base_prompt, merging.patch.target_block)
    IN  {k \in matching :
            k > SetMin(matching) /\ IsHeaderAt(Lines(merging.base_prompt), k)}

\* C33: several lines match target_block, a later one being a block header:
\* the prompt returned ends with everything from the block header that
\* follows the first matching line on, character for character (whitespace
\* at the very end aside), so every later matching header and its body are
\* as they were; before that it holds, blank lines and the whitespace around
\* lines aside, the lines up to the end of the first matching block and the
\* content (APPEND), or the lines up to the first matching line and the
\* content (REPLACE).
C33OnlyFirstMatchingBlockModified ==
    (MergerReturned /\ LaterMatchingHeaders # {}) =>
        LET lines == Lines(merging.base_prompt)
            first == SetMin(MatchingLines(merging.base_prompt,
                                          merging.patch.target_block))
            next == NextHeaderLine(lines, first)
            rest == RStrip(Join(SubSeq(lines, next, Len(lines))))
            kept == IF merging.patch.operation = "APPEND" THEN next - 1 ELSE first
            n == Len(merging.result) - Len(rest)
        IN  /\ n >= 0
            /\ SubSeq(merging.result, n + 1, Len(merging.result)) = rest
            /\ Norm(Lines(SubSeq(merging.result, 1, n))) =
                    Norm(SubSeq(lines, 1, kept))
                        \o Norm(Lines(merging.patch.content))

\* a REPLACE on a prompt with two blocks of the target's name, each with a
\* body line
C33Witness ==
    /\ MergerReturned
    /\ merging.patch.operation = "REPLACE"
    /\ merging.patch.content = <<"p">>
    /\ merging.patch.target_block = BlockA
    /\ Lines(merging.base_prompt) = <<BlockA, BlockA, <<"x">> >>
    /\ Lines(merging.result) = <<BlockA, <<"p">>, BlockA, <<"x">> >>

\* ------------------------------------------------------------------ C34
\* C34: full validation, evaluator and scorer functions of (prompt,
\* example): every initial evaluation made after a commit is scored
\* correct, a run commits at most one candidate, and a prompt returned that
\* is not the initial one scores every example of the dataset correct.
C34OneCommitThenAllPass ==
    running.pc # "idle" =>
        /\ \A k \in DOMAIN running.evaluations :
            running.evaluations[k].commits > 0 => running.evaluations[k].is_correct
        /\ Len(running.commits) <= 1
        /\ (running.pc = "done" /\ running.prompt # 0) =>
            \A e \in 1..running.n : <<running.prompt, e>> \in running.passes

\* a run over two examples committed a candidate at the first one,
\* evaluated the second one under it and returned it
C34Witness ==
    /\ running.pc = "done"
    /\ running.n = 2
    /\ Len(running.commits) = 1
    /\ running.commits[1].example = 1
    /\ running.prompt = running.commits[1].candidate
    /\ running.prompt # 0
    /\ Len(running.evaluations) = 2
    /\ running.evaluations[2].commits = 1
    /\ <<0, 2>> \notin running.passes

\* ------------------------------------------------------------------ C36
\* a step of optimize that appends a description to the history
RejectionRecorded == pc = "decide" /\ Len(history') = Len(history) + 1

\* C36: the description appended for the k-th rejected attempt of an
\* example is labelled 'Failed Attempt k', k being counted per example from
\* 1, and carries the operation, target block and content of the patch
\* rejected in that attempt.
C36FailedAttemptNumbered ==
    [][RejectionRecorded =>
        LET entry == history'[Len(history')]
        IN  /\ SubSeq(history', 1, Len(history)) = history
            /\ entry[1] = "Failed Attempt"
            /\ entry[2] = Len(history')
            /\ Describes(entry, patch)]_vars

\* ------------------------------------------------------------------ C37
\* C37: with max_refine_iters = 0 optimize calls the Evaluator once per
\* example, in order and under the initial prompt, calls neither the
\* Refiner nor the merger nor the validator, notifies run_start and run_end
\* only, and returns the initial prompt, whatever the verdicts.
C37NoRefinementWithoutBudget ==
    (max_refine_iters = 0 /\ pc \notin {"idle", "new"}) =>
        /\ \A k \in DOMAIN calls :
            /\ calls[k].fn = "evaluator"
            /\ calls[k].example = k - 1
            /\ calls[k].arg = InitialPrompt
        /\ Len(calls) = i
        /\ \A k \in DOMAIN hooks : hooks[k].event \in {"run_start", "run_end"}
        /\ prompt = InitialPrompt
        /\ pc = "done" =>
            /\ returned = InitialPrompt
            /\ Len(calls) = Len(dataset)
            /\ Len(hooks) = 2 * Len(callbacks)

\* a run without budget is done: its first example was scored wrong, its
\* second one correct
C37Witness ==
    /\ pc = "done"
    /\ max_refine_iters = 0
    /\ callbacks # << >>
    /\ Len(dataset) = 2
    /\ FailedInitial(0)
    /\ ~FailedInitial(1)

\* ------------------------------------------------------------------ C38
\* what a HistoryCallback holds now for the k-th hook call of the run
EntryOfHook(k) == LogEntry(hooks[k].event, hooks[k].state)

\* the calls of fn made in the attempt that entry was logged in
OwnCalls(fn, entry) ==
    {c \in DOMAIN calls :
        /\ calls[c].fn = fn
        /\ calls[c].example = entry["example_id"]
        /\ calls[c].attempt = entry["refinement_attempt"]}

\* C38: an entry of HistoryCallback.history is not changed by later updates
\* of the run state: at every later moment the run_start entry holds the
\* initial prompt and total_evaluations 0, and every validation_end entry
\* holds the patch, candidate_prompt and is_valid of its own attempt.
C38EntriesKeepTheirSnapshot ==
    \A k \in DOMAIN hooks :
        hooks[k].event \in {"run_start", "validation_end"} =>
            LET entry == EntryOfHook(k)
            IN  IF entry["event"] = "run_start"
                THEN /\ entry["prompt"] = InitialPrompt
                     /\ entry["total_evaluations"] = 0
                ELSE LET merged == OwnCalls("merger", entry)
                         validated == OwnCalls("validator", entry)
                     IN  /\ merged # {}
                         /\ validated # {}
                         /\ \A c \in merged :
                             /\ calls[c].arg.patch = entry["patch"]
                             /\ calls[c].res = entry["candidate_prompt"]
                         /\ \A c \in validated :
                             /\ calls[c].arg = entry["candidate_prompt"]
                             /\ IsValidOf(calls[c].res) = entry["is_valid"]

\* a finished run whose first example was rejected once and committed in its
\* second attempt, with a later evaluation after the commit
C38Witness ==
    /\ pc = "done"
    /\ callbacks # << >>
    /\ Len(dataset) = 2
    /\ prompt # InitialPrompt
    /\ \E a, b \in DOMAIN hooks :
        /\ a < b
        /\ hooks[a].event = "validation_end"
        /\ hooks[b].event = "validation_end"
        /\ hooks[a].state["example_id"] = 0
        /\ hooks[b].state["example_id"] = 0
        /\ ~hooks[a].state["is_valid"]
        /\ hooks[b].state["is_valid"]
        /\ hooks[a].state["candidate_prompt"] # prompt
    /\ state["total_evaluations"] > 3

\* ------------------------------------------------------------------ C39
\* the evaluations and the refinements optimise made of sample e
EvalsOf(e) == SelectSeq(pool.evals, LAMBDA c : c.idx = e)
RefinesOf(e) == SelectSeq(pool.refines, LAMBDA c : c.idx = e)

\* every one of the max_refine_iters + 1 evaluations of sample e was made and
\* was incorrect
AllEvaluationsIncorrect(e) ==
    /\ Len(EvalsOf(e)) = pool.max_refine_iters + 1
    /\ \A k \in DOMAIN EvalsOf(e) : ~EvalsOf(e)[k].correct

====
